---- MODULE Spec2Model ----
(***************************************************************************)
(* A model of the havas-app backend: the product catalog, the recipe       *)
(* catalog, the story service (apps.story), and the routed stories         *)
(* endpoints (apps.stories), as state machines over the relational store.  *)
(* Every handler is translated from its source; a handler whose database   *)
(* statements can interleave with another request is split into one action *)
(* per statement.                                                          *)
(***************************************************************************)
EXTENDS Integers, FiniteSets, Sequences, TLC

\* SQL NULL / Python None for nullable foreign keys and timestamps.
\* Row ids and clock values start at 1.
None == 0

\* ---------------------------------------------------------------- bounds
MaxViewRequests == 3
MaxTime == 3
MaxProducts == 1
MaxImages == 1
MaxMediaRows == 2
MaxRecipes == 1
MaxRecipeRequests == 3
MaxStories == 1
MaxStoryViews == 2
MaxUserRequests == 3
RecipeWorkers == {1, 2}

ViewWorkers == {1, 2}
Devices == {1}
Users == {1}
UserWorkers == {1, 2}

VARIABLES
    now,          \* timezone.now(), a discrete clock
    story_tbl,    \* apps.story Story rows: id -> row
    view_tbl,     \* apps.story StoryView rows: set of [id, story, device, user]
    vreq,         \* view-recording requests in flight, per worker
    vresp,        \* last response of each view-recording worker
    vstarted,     \* number of view-recording requests accepted so far
    product_tbl,  \* Product rows: id -> row
    media_tbl,    \* Media rows owned by products: set of [id, owner]
    media_seq,    \* last primary key the Media table handed out
    presp,        \* last response of the product endpoints
    recipe_tbl,   \* Recipe rows: id -> row
    ingr_tbl,     \* RecipeProduct rows: set of [id, recipe, product]
    step_tbl,     \* RecipeStep rows: set of [id, recipe, step_number]
    ingr_seq,     \* last primary key the RecipeProduct table handed out
    step_seq,     \* last primary key the RecipeStep table handed out
    rreq,         \* recipe requests in flight, per worker
    rresp,        \* last response of each recipe worker
    rstarted,     \* number of recipe requests accepted so far
    story_seq,    \* last primary key the apps.story Story table handed out
    sresp,        \* last response of the apps.story story endpoints
    stories_tbl,  \* apps.stories Story rows: id -> row
    sviews_tbl,   \* apps.stories StoryView rows: set of [id, story, user]
    stories_seq,  \* last primary key the apps.stories Story table handed out
    ssresp,       \* last response of the apps.stories endpoints
    user_tbl,     \* User rows: id -> row
    ureq,         \* per worker: the registration it is handling
    uresp,        \* per worker: the last registration response
    ustarted,     \* number of account requests accepted so far
    lreq,         \* the last login request
    lresp         \* the response to the last login request

viewVars == <<now, story_tbl, view_tbl, vreq, vresp, vstarted>>
productVars == <<product_tbl, media_tbl, media_seq, presp>>
recipeVars == <<recipe_tbl, ingr_tbl, step_tbl, ingr_seq, step_seq, rreq, rresp, rstarted>>
storyVars == <<story_seq, sresp>>
storiesVars == <<stories_tbl, sviews_tbl, stories_seq, ssresp>>
usersVars == <<user_tbl, ureq, uresp, ustarted, lreq, lresp>>
vars == <<viewVars, productVars, recipeVars, storyVars, storiesVars, usersVars>>

\* ----------------------------------------------------------------- callers

\* request.user: AnonymousUser, an authenticated user, an authenticated staff user.
Callers == {"anon", "user", "staff"}
is_authenticated(c) == c # "anon"
is_staff(c) == c = "staff"
SafeMethods == {"GET", "HEAD", "OPTIONS"}

\* apps.stories.permissions.IsAdminOrReadOnly.has_permission
IsAdminOrReadOnly(c, method) ==
    IF method \in SafeMethods THEN TRUE ELSE is_staff(c)

\* ------------------------------------------------------- apps.story model

StoryRow(status, is_active, published_at, expires_at, is_featured) ==
    [status |-> status, is_active |-> is_active, published_at |-> published_at,
     expires_at |-> expires_at, is_featured |-> is_featured,
     action_url |-> None, view_count |-> 0, click_count |-> 0]

is_expired_at_expiry(st, t) ==
    IF st.expires_at = None THEN FALSE ELSE t >= st.expires_at

\* Story.is_expired: False without expires_at, else now > expires_at.
is_expired(st, t) ==
    IF st.expires_at = None THEN FALSE ELSE t > st.expires_at

is_published_any_status(st, t) ==
    st.is_active /\ ~is_expired(st, t)

\* Story.is_published
is_published(st, t) ==
    st.status = "PUBLISHED" /\ st.is_active /\ ~is_expired(st, t)

\* ----------------------------------------------- view recording (apps.story)

ViewsOf(s, d, u) ==
    {v \in view_tbl : v.story = s /\ v.device = d /\ v.user = u}

\* unique_together = [['story', 'device', 'user']] as the store enforces it:
\* a UNIQUE index over nullable columns never matches a row holding NULL.
UniqueConflict(s, d, u) ==
    d # None /\ u # None /\ ViewsOf(s, d, u) # {}

\* The UniqueTogetherValidator the ModelSerializer derives from Meta.model:
\* it is skipped when one of the checked values is None.
UniqueTogetherValidator(s, d, u) ==
    ~(s # None /\ d # None /\ u # None /\ ViewsOf(s, d, u) # {})

IdleReq == [pc |-> "idle", story |-> None, device |-> None, user |-> None, snap |-> 0]
NoResp == [status |-> 0, code |-> "none"]

\* The primary key the store gives the next StoryView row.
NextViewId ==
    IF view_tbl = {} THEN 1
    ELSE (CHOOSE i \in {v.id : v \in view_tbl} :
              \A j \in {v.id : v \in view_tbl} : j <= i) + 1

\* serializer.is_valid(raise_exception=True): the story field is required and
\* must name a row; validate_story; then the unique-together validator.
\* A valid request keeps the Story instance read here (its view_count).
ViewValidate(w, s, d, u) ==
    /\ vreq[w].pc = "idle"
    /\ vstarted < MaxViewRequests
    /\ vstarted' = vstarted + 1
    /\ IF s = None THEN
           /\ vresp' = [vresp EXCEPT ![w] = [status |-> 400, code |-> "story_required"]]
           /\ UNCHANGED vreq
       ELSE IF s \notin DOMAIN story_tbl THEN
           /\ vresp' = [vresp EXCEPT ![w] = [status |-> 400, code |-> "story_does_not_exist"]]
           /\ UNCHANGED vreq
       ELSE IF ~is_published(story_tbl[s], now) THEN
           /\ vresp' = [vresp EXCEPT ![w] = [status |-> 400, code |-> "story_unpublished"]]
           /\ UNCHANGED vreq
       ELSE IF ~UniqueTogetherValidator(s, d, u) THEN
           /\ vresp' = [vresp EXCEPT ![w] = [status |-> 400, code |-> "unique"]]
           /\ UNCHANGED vreq
       ELSE
           /\ vreq' = [vreq EXCEPT ![w] = [pc |-> "save", story |-> s, device |-> d,
                                           user |-> u, snap |-> story_tbl[s].view_count]]
           /\ vresp' = [vresp EXCEPT ![w] = NoResp]
    /\ UNCHANGED <<now, story_tbl, view_tbl, productVars, usersVars, recipeVars, storyVars, storiesVars>>

\* view = serializer.save(): the INSERT; an IntegrityError is answered 200.
ViewSave(w) ==
    /\ vreq[w].pc = "save"
    /\ IF UniqueConflict(vreq[w].story, vreq[w].device, vreq[w].user) THEN
           /\ vresp' = [vresp EXCEPT ![w] = [status |-> 200, code |-> "already_recorded"]]
           /\ vreq' = [vreq EXCEPT ![w] = IdleReq]
           /\ UNCHANGED view_tbl
       ELSE
           /\ view_tbl' = view_tbl \cup
                 {[id |-> NextViewId, story |-> vreq[w].story,
                   device |-> vreq[w].device, user |-> vreq[w].user]}
           /\ vreq' = [vreq EXCEPT ![w].pc = "increment"]
           /\ UNCHANGED vresp
    /\ UNCHANGED <<now, story_tbl, vstarted, productVars, usersVars, recipeVars, storyVars, storiesVars>>

increment_view_count_atomic(w) ==
    [story_tbl EXCEPT ![vreq[w].story].view_count = @ + 1]

increment_view_count_twice(w) ==
    [story_tbl EXCEPT ![vreq[w].story].view_count = vreq[w].snap + 2]

\* story.increment_view_count(): view_count += 1 on the instance read at
\* validation, then save(update_fields=['view_count']).
increment_view_count(w) ==
    [story_tbl EXCEPT ![vreq[w].story].view_count = vreq[w].snap + 1]

ViewIncrement(w) ==
    /\ vreq[w].pc = "increment"
    /\ story_tbl' = increment_view_count(w)
    /\ vresp' = [vresp EXCEPT ![w] = [status |-> 201, code |-> "created"]]
    /\ vreq' = [vreq EXCEPT ![w] = IdleReq]
    /\ UNCHANGED <<now, view_tbl, vstarted, productVars, usersVars, recipeVars, storyVars, storiesVars>>

\* --------------------------------------------- click recording (apps.story)

ClickResp(status, code, pk, total_clicks, action_url) ==
    [status |-> status, code |-> code, story |-> pk,
     total_clicks |-> total_clicks, action_url |-> action_url]

\* StoryClickAPIView.post up to the is_published test: Story.objects.get(pk=pk), then
\* story.is_published; the instance read here is the one incremented.
ClickBegin(w, pk) ==
    /\ vreq[w].pc = "idle"
    /\ vstarted < MaxViewRequests
    /\ vstarted' = vstarted + 1
    /\ IF pk \notin DOMAIN story_tbl THEN
           /\ vresp' = [vresp EXCEPT ![w] = ClickResp(404, "click_not_found", pk, 0, None)]
           /\ UNCHANGED vreq
       ELSE IF ~is_published(story_tbl[pk], now) THEN
           /\ vresp' = [vresp EXCEPT ![w] = ClickResp(400, "click_unavailable", pk, 0, None)]
           /\ UNCHANGED vreq
       ELSE
           /\ vreq' = [vreq EXCEPT ![w] = [pc |-> "click", story |-> pk, device |-> None,
                                           user |-> None, snap |-> story_tbl[pk].click_count]]
           /\ vresp' = [vresp EXCEPT ![w] = NoResp]
    /\ UNCHANGED <<now, story_tbl, view_tbl, productVars, usersVars, recipeVars, storyVars, storiesVars>>

increment_click_count_skip(tbl, pk, snap) ==
    tbl

\* Story.increment_click_count: click_count += 1 on the instance, then
\* save(update_fields=['click_count']).
increment_click_count(tbl, pk, snap) ==
    [tbl EXCEPT ![pk].click_count = snap + 1]

\* StoryClickAPIView.post: story.increment_click_count() and the 200 response.
ClickSave(w) ==
    /\ vreq[w].pc = "click"
    /\ story_tbl' = increment_click_count(story_tbl, vreq[w].story, vreq[w].snap)
    /\ vresp' = [vresp EXCEPT ![w] =
           ClickResp(200, "clicked", vreq[w].story, vreq[w].snap + 1,
                     story_tbl[vreq[w].story].action_url)]
    /\ vreq' = [vreq EXCEPT ![w] = IdleReq]
    /\ UNCHANGED <<now, view_tbl, vstarted, productVars, usersVars, recipeVars, storyVars, storiesVars>>

ClickRecording(W) ==
    \E w \in W :
        \/ \E pk \in 1..3 : ClickBegin(w, pk)
        \/ ClickSave(w)

ViewRecording(W) ==
    \E w \in W :
        \/ \E s \in {None, 1, 2, 3}, d \in Devices \cup {None}, u \in Users \cup {None} :
               ViewValidate(w, s, d, u)
        \/ ViewSave(w)
        \/ ViewIncrement(w)

\* ------------------------------------------------------- product catalog

\* Amounts are in the minor currency unit; the inputs are whole amounts, for
\* which price * discount / 100 is exact in the store's two decimals.
PriceInputs == {0, 100, 200}
DiscountInputs == {0, 50, 150}

\* The request bodies: any subset of the keys, each with a value of its kind.
\* images is the number of uploaded files; real_price is a value a client may
\* try to set.
ProductKeys == {"price", "discount", "is_active", "images", "real_price"}
Restrict(f, K) == [k \in K |-> f[k]]

\* The translated texts: title and description in the locales uz, en, ru.
\* NoText is the empty string.
NoText == ""
Locales == {"uz", "en", "ru"}
TextKeys == {"title_uz", "title_en", "title_ru",
             "description_uz", "description_en", "description_ru"}
RequiredTextKeys == {"title_uz", "description_uz"}

\* Bodies that vary the prices, flags and images; their texts are the two
\* required ones, always the same.
ProductPayloads ==
    {Restrict(full, K \cup RequiredTextKeys) :
        full \in [price : PriceInputs, discount : DiscountInputs, is_active : BOOLEAN,
                  images : 0..MaxImages, real_price : {7},
                  title_uz : {"a"}, description_uz : {"a"}],
        K \in SUBSET ProductKeys}

\* Bodies that vary the texts: the uz texts are never blank (CharField without
\* allow_blank), the others may be.
ProductTextPayloads ==
    {Restrict(full, K) :
        full \in [price : {100},
                  title_uz : {"a", "b"}, title_en : {NoText, "c"}, title_ru : {NoText, "d"},
                  description_uz : {"a"}, description_en : {NoText, "c"},
                  description_ru : {NoText}],
        K \in SUBSET (TextKeys \cup {"price"})}

\* Meta.fields of ProductCreateSerializer and ProductUpdateSerializer, as far
\* as the model keeps them: keys outside it never reach validated_data.
ProductSerializerFields == {"price", "discount", "is_active", "images"} \cup TextKeys
ValidatedData(payload) == Restrict(payload, DOMAIN payload \cap ProductSerializerFields)

\* The Product model's field defaults.
ProductDefaults == [discount |-> 0, is_active |-> TRUE]

\* pre_save receiver of Product.
update_real_price_field_keep(instance) ==
    IF instance.discount > 0
    THEN [instance EXCEPT !.real_price =
              instance.price - (instance.price * instance.discount) \div 100]
    ELSE instance

update_real_price_field(instance) ==
    IF instance.discount > 0
    THEN [instance EXCEPT !.real_price =
              instance.price - (instance.price * instance.discount) \div 100]
    ELSE [instance EXCEPT !.real_price = instance.price]

\* Model.save() of a Product: the pre_save signal, then the row is written.
ProductSave(tbl, id, instance) ==
    LET row == update_real_price_field(instance)
    IN  IF id \in DOMAIN tbl THEN [tbl EXCEPT ![id] = row] ELSE tbl @@ (id :> row)

NextProductId ==
    IF DOMAIN product_tbl = {} THEN 1
    ELSE (CHOOSE i \in DOMAIN product_tbl : \A j \in DOMAIN product_tbl : j <= i) + 1

MediaOf(id) == {m \in media_tbl : m.owner = id}

\* Media.objects.create(content_object=product, ...) for each uploaded image.
NewMedia(id, n) == {[id |-> media_seq + k, owner |-> id] : k \in 1..n}

\* What a response shows of the products it returns.
ProductData(tbl, ids) == {[id |-> i, is_active |-> tbl[i].is_active] : i \in ids}

\* ProductCreateSerializer.validate_price / validate_discount
validate_price(value) == value > 0
validate_discount(value) == ~(value < 0 \/ value > 100)

\* setattr(instance, attr, value) for the model fields of validated_data.
SetAttrs(instance, data) ==
    [k \in DOMAIN instance |->
        IF k \in DOMAIN data THEN data[k] ELSE instance[k]]

\* ProductCreateSerializer.create: product.title_uz = title_uz,
\* product.title_en = title_en or title_uz, and so on for every text.
SetTranslations(instance, data) ==
    LET text(field, locale) ==
            LET key == field \o "_" \o locale
                given == IF key \in DOMAIN data THEN data[key] ELSE NoText
            IN  IF given # NoText THEN given ELSE data[field \o "_uz"]
    IN  [instance EXCEPT !.title_uz = text("title", "uz"),
                         !.title_en = text("title", "en"),
                         !.title_ru = text("title", "ru"),
                         !.description_uz = text("description", "uz"),
                         !.description_en = text("description", "en"),
                         !.description_ru = text("description", "ru")]

\* A Product instance before any text is set.
NoTexts ==
    [title_uz |-> NoText, title_en |-> NoText, title_ru |-> NoText,
     description_uz |-> NoText, description_en |-> NoText, description_ru |-> NoText]

\* ProductListCreateApiView.create with ProductCreateSerializer.create.
ProductCreate(payload) ==
    LET data == ValidatedData(payload)
        n == IF "images" \in DOMAIN data THEN data.images ELSE 0
    IN
    /\ Cardinality(DOMAIN product_tbl) < MaxProducts
    /\ media_seq + n <= MaxMediaRows
    /\ IF /\ "price" \in DOMAIN data
          /\ RequiredTextKeys \subseteq DOMAIN data
          /\ validate_price(data.price)
          /\ "discount" \in DOMAIN data => validate_discount(data.discount)
       THEN
           LET id == NextProductId
               created == SetAttrs([price |-> None, discount |-> ProductDefaults.discount,
                                    real_price |-> None,
                                    is_active |-> ProductDefaults.is_active] @@ NoTexts,
                                   Restrict(data, DOMAIN data \ TextKeys))
               \* Product.objects.create(**validated_data), then the texts
               \* and product.save()
               tbl1 == ProductSave(product_tbl, id, created)
               tbl2 == ProductSave(tbl1, id, SetTranslations(tbl1[id], data))
           IN  /\ product_tbl' = tbl2
               /\ media_tbl' = media_tbl \cup NewMedia(id, n)
               /\ media_seq' = media_seq + n
               /\ presp' = [op |-> "create", id |-> id, status |-> 201, data |-> {}]
       ELSE
           /\ presp' = [op |-> "create", id |-> None, status |-> 400, data |-> {}]
           /\ UNCHANGED <<product_tbl, media_tbl, media_seq>>
    /\ UNCHANGED <<viewVars, recipeVars, usersVars, storyVars, storiesVars>>

\* ProductDetailRetrieveUpdateDestroyAPIView.update (PUT, or PATCH when
\* partial) with ProductUpdateSerializer.update.
ProductUpdate(id, partial, payload) ==
    LET data == ValidatedData(payload)
    IN
    /\ IF id \notin DOMAIN product_tbl THEN
           /\ presp' = [op |-> "update", id |-> id, status |-> 404, data |-> {}]
           /\ UNCHANGED <<product_tbl, media_tbl, media_seq>>
       ELSE IF ~partial /\ "price" \notin DOMAIN data THEN
           /\ presp' = [op |-> "update", id |-> id, status |-> 400, data |-> {}]
           /\ UNCHANGED <<product_tbl, media_tbl, media_seq>>
       ELSE
           /\ product_tbl' = ProductSave(product_tbl, id, SetAttrs(product_tbl[id], data))
           /\ IF "images" \in DOMAIN data THEN
                  /\ media_seq + data.images <= MaxMediaRows
                  /\ media_tbl' = (media_tbl \ MediaOf(id)) \cup NewMedia(id, data.images)
                  /\ media_seq' = media_seq + data.images
              ELSE UNCHANGED <<media_tbl, media_seq>>
           /\ presp' = [op |-> "update", id |-> id, status |-> 200, data |-> {}]
    /\ UNCHANGED <<viewVars, recipeVars, usersVars, storyVars, storiesVars>>

\* destroy: instance.is_active = False; instance.save(update_fields=['is_active'])
soft_delete_hard(tbl, id) == [i \in DOMAIN tbl \ {id} |-> tbl[i]]

soft_delete(tbl, id) == [tbl EXCEPT ![id].is_active = FALSE]

ProductDestroy(id) ==
    /\ IF id \notin DOMAIN product_tbl THEN
           /\ presp' = [op |-> "destroy", id |-> id, status |-> 404, data |-> {}]
           /\ UNCHANGED product_tbl
       ELSE
           /\ product_tbl' = soft_delete(product_tbl, id)
           /\ presp' = [op |-> "destroy", id |-> id, status |-> 204, data |-> {}]
    /\ UNCHANGED <<media_tbl, media_seq, viewVars, recipeVars, usersVars, storyVars, storiesVars>>

\* The detail view's queryset = Product.objects.all(), and get_object() on it.
ProductDetailQueryset(tbl) == DOMAIN tbl

ProductRetrieveResponse(tbl, id) ==
    IF id \in ProductDetailQueryset(tbl)
    THEN [op |-> "retrieve", id |-> id, status |-> 200, data |-> ProductData(tbl, {id})]
    ELSE [op |-> "retrieve", id |-> id, status |-> 404, data |-> {}]

\* The request's language tag as the middleware leaves it in request.lang;
\* NoLang is a request without one.
NoLang == "-"
LangInputs == {NoLang, "uz", "en", "EN", "ru", "fr"}

\* str.lower()
lower(tag) == IF tag = "EN" THEN "en" ELSE tag

\* The title and description the ModelSerializer reads from the instance
\* before any language is applied.
BaseText(instance, field) == instance[field \o "_uz"]

to_representation_no_fallback(instance, field, tag) ==
    IF tag # NoLang /\ lower(tag) \in Locales
    THEN instance[field \o "_" \o lower(tag)]
    ELSE BaseText(instance, field)

\* ProductDetailSerializer.to_representation, for title or description:
\* getattr(instance, f'{field}_{lang}') or instance.<field>_uz when the
\* instance has that attribute.
to_representation(instance, field, tag) ==
    IF tag # NoLang /\ lower(tag) \in Locales
    THEN LET value == instance[field \o "_" \o lower(tag)]
         IN  IF value # NoText THEN value ELSE instance[field \o "_uz"]
    ELSE BaseText(instance, field)

ProductRetrieve(id, tag) ==
    /\ presp' = IF id \in ProductDetailQueryset(product_tbl)
                THEN [ProductRetrieveResponse(product_tbl, id) EXCEPT !.data =
                         {[id |-> id, is_active |-> product_tbl[id].is_active,
                           title |-> to_representation(product_tbl[id], "title", tag),
                           description |->
                               to_representation(product_tbl[id], "description", tag)]}]
                ELSE ProductRetrieveResponse(product_tbl, id)
    /\ UNCHANGED <<product_tbl, media_tbl, media_seq, viewVars, recipeVars, usersVars, storyVars, storiesVars>>

\* ProductListCreateApiView.get_queryset: Product.objects.filter(is_active=True)
ProductListQueryset(tbl) == {i \in DOMAIN tbl : tbl[i].is_active}

ProductListResponse(tbl) ==
    [op |-> "list", id |-> None, status |-> 200,
     data |-> ProductData(tbl, ProductListQueryset(tbl))]

ProductList ==
    /\ presp' = ProductListResponse(product_tbl)
    /\ UNCHANGED <<product_tbl, media_tbl, media_seq, viewVars, recipeVars, usersVars, storyVars, storiesVars>>

NextProduct ==
    \/ \E payload \in ProductPayloads : ProductCreate(payload)
    \/ \E id \in 1..(MaxProducts + 1), partial \in BOOLEAN, payload \in ProductPayloads :
           ProductUpdate(id, partial, payload)
    \/ \E id \in 1..(MaxProducts + 1) : ProductDestroy(id)
    \/ \E id \in 1..(MaxProducts + 1), tag \in LangInputs : ProductRetrieve(id, tag)
    \/ ProductList

\* The product endpoints with bodies that vary the texts.
NextProductText ==
    \/ \E payload \in ProductTextPayloads : ProductCreate(payload)
    \/ \E id \in 1..MaxProducts, partial \in BOOLEAN, payload \in ProductTextPayloads :
           ProductUpdate(id, partial, payload)
    \/ \E id \in 1..MaxProducts : ProductDestroy(id)
    \/ \E id \in 1..MaxProducts, tag \in LangInputs : ProductRetrieve(id, tag)
    \/ ProductList

\* -------------------------------------------------------- recipe catalog

\* Ingredient lists by product_id and step lists by step_number: empty, one
\* entry, two entries, a repeated entry, and a product that is inactive.
IngredientInputs == {<<>>, <<1>>, <<1, 2>>, <<2, 2>>, <<3>>}
StepInputs == {<<>>, <<1>>, <<1, 2>>, <<2, 2>>}

RecipeKeys == {"ingredients", "steps"}
RecipePayloads ==
    {Restrict(full, K) :
        full \in [ingredients : IngredientInputs, steps : StepInputs],
        K \in SUBSET RecipeKeys}
EmptyPayload == Restrict([ingredients |-> <<>>], {})

Range(s) == {s[k] : k \in DOMAIN s}

\* RecipeCreateUpdateSerializer.validate_ingredients
validate_ingredients(value) ==
    /\ value # <<>>
    /\ Cardinality({i \in DOMAIN product_tbl :
                       i \in Range(value) /\ product_tbl[i].is_active}) = Len(value)

\* RecipeCreateUpdateSerializer.validate_steps
validate_steps(value) ==
    /\ value # <<>>
    /\ Cardinality(Range(value)) = Len(value)

\* serializer.is_valid(): the nested lists are required unless partial.
RecipeIsValid(payload, partial) ==
    /\ partial \/ {"ingredients", "steps"} \subseteq DOMAIN payload
    /\ "ingredients" \in DOMAIN payload => validate_ingredients(payload.ingredients)
    /\ "steps" \in DOMAIN payload => validate_steps(payload.steps)

IngredientsOf(tbl, id) == {r \in tbl : r.recipe = id}
StepsOf(tbl, id) == {r \in tbl : r.recipe = id}

NoRecipe == [is_active |-> FALSE, view_count |-> 0]
IdleRecipeReq ==
    [pc |-> "idle", op |-> "none", id |-> None, inst |-> NoRecipe,
     payload |-> EmptyPayload, i |-> 0]
RecipeResp(op, id, status) == [op |-> op, id |-> id, status |-> status]
NoRecipeResp == RecipeResp("none", None, 0)

Answer(w, r) ==
    /\ rresp' = [rresp EXCEPT ![w] = r]
    /\ rreq' = [rreq EXCEPT ![w] = IdleRecipeReq]

Accept(w) ==
    /\ rreq[w].pc = "idle"
    /\ rstarted < MaxRecipeRequests
    /\ rstarted' = rstarted + 1

NextRecipeId ==
    IF DOMAIN recipe_tbl = {} THEN 1
    ELSE (CHOOSE i \in DOMAIN recipe_tbl : \A j \in DOMAIN recipe_tbl : j <= i) + 1

\* RecipeListCreateAPIView.create with RecipeCreateUpdateSerializer.create
RecipeCreate(w, c, payload) ==
    /\ Accept(w)
    /\ IF ~IsAdminOrReadOnly(c, "POST") THEN
           /\ Answer(w, RecipeResp("POST", None, 403))
           /\ UNCHANGED <<recipe_tbl, ingr_tbl, step_tbl, ingr_seq, step_seq>>
       ELSE IF ~RecipeIsValid(payload, FALSE) THEN
           /\ Answer(w, RecipeResp("POST", None, 400))
           /\ UNCHANGED <<recipe_tbl, ingr_tbl, step_tbl, ingr_seq, step_seq>>
       ELSE
           LET id == NextRecipeId
               row == [is_active |-> TRUE, view_count |-> 0]
               ingr == {[id |-> ingr_seq + k, recipe |-> id,
                         product |-> payload.ingredients[k]] :
                            k \in 1..Len(payload.ingredients)}
               steps == {[id |-> step_seq + k, recipe |-> id,
                          step_number |-> payload.steps[k]] :
                            k \in 1..Len(payload.steps)}
           IN  /\ Cardinality(DOMAIN recipe_tbl) < MaxRecipes
               /\ recipe_tbl' = recipe_tbl @@ (id :> row)
               /\ ingr_tbl' = ingr_tbl \cup ingr
               /\ step_tbl' = step_tbl \cup steps
               /\ ingr_seq' = ingr_seq + Len(payload.ingredients)
               /\ step_seq' = step_seq + Len(payload.steps)
               /\ Answer(w, RecipeResp("POST", id, 201))
    /\ UNCHANGED <<viewVars, productVars, usersVars, storyVars, storiesVars>>

\* RecipeListCreateAPIView.list over Recipe.objects.filter(is_active=True)
RecipeList(w) ==
    /\ Accept(w)
    /\ Answer(w, RecipeResp("LIST", None, 200))
    /\ UNCHANGED <<recipe_tbl, ingr_tbl, step_tbl, ingr_seq, step_seq,
                   viewVars, productVars, usersVars, storyVars, storiesVars>>

\* Permission check and get_object() of the detail view; the instance read
\* here is the one the handler later saves.
RecipeDetailBegin(w, c, method, id, payload, pc) ==
    /\ Accept(w)
    /\ IF ~IsAdminOrReadOnly(c, method) THEN
           Answer(w, RecipeResp(method, id, 403))
       ELSE IF id \notin DOMAIN recipe_tbl THEN
           Answer(w, RecipeResp(method, id, 404))
       ELSE IF method \in {"PUT", "PATCH"} /\ ~RecipeIsValid(payload, method = "PATCH") THEN
           Answer(w, RecipeResp(method, id, 400))
       ELSE
           /\ rreq' = [rreq EXCEPT ![w] =
                  [pc |-> pc, op |-> method, id |-> id, inst |-> recipe_tbl[id],
                   payload |-> payload, i |-> 1]]
           /\ rresp' = [rresp EXCEPT ![w] = NoRecipeResp]
    /\ UNCHANGED <<recipe_tbl, ingr_tbl, step_tbl, ingr_seq, step_seq,
                   viewVars, productVars, usersVars, storyVars, storiesVars>>

\* RecipeRetrieveUpdateDestroyAPIView.retrieve: get_object()
RecipeRetrieveBegin(w, c, id) ==
    RecipeDetailBegin(w, c, "GET", id, EmptyPayload, "increment")

RecipeRetrieveSave_twice(w) ==
    /\ rreq[w].pc = "increment"
    /\ recipe_tbl' = [recipe_tbl EXCEPT ![rreq[w].id].view_count = rreq[w].inst.view_count + 2]
    /\ rreq' = [rreq EXCEPT ![w].pc = "serialize",
                            ![w].inst.view_count = rreq[w].inst.view_count + 2]
    /\ UNCHANGED <<ingr_tbl, step_tbl, ingr_seq, step_seq, rresp, rstarted,
                   viewVars, productVars, usersVars, storyVars, storiesVars>>

\* retrieve: instance.view_count += 1; instance.save(update_fields=['view_count'])
RecipeRetrieveSave(w) ==
    /\ rreq[w].pc = "increment"
    /\ recipe_tbl' = [recipe_tbl EXCEPT ![rreq[w].id].view_count = rreq[w].inst.view_count + 1]
    /\ rreq' = [rreq EXCEPT ![w].pc = "serialize",
                            ![w].inst.view_count = rreq[w].inst.view_count + 1]
    /\ UNCHANGED <<ingr_tbl, step_tbl, ingr_seq, step_seq, rresp, rstarted,
                   viewVars, productVars, usersVars, storyVars, storiesVars>>

\* RecipeDetailSerializer(instance).data: the nested ingredients and steps
\* are read from the store when the response is built.
RecipeDetailData(id) ==
    [ingredients |-> {r.product : r \in IngredientsOf(ingr_tbl, id)},
     steps |-> {r.step_number : r \in StepsOf(step_tbl, id)}]

\* The response of a detail request; the one of a retrieval carries the
\* nested rows.
RecipeSerialize(w) ==
    /\ rreq[w].pc = "serialize"
    /\ Answer(w, IF rreq[w].op = "GET"
                 THEN RecipeResp("GET", rreq[w].id, 200) @@ RecipeDetailData(rreq[w].id)
                 ELSE RecipeResp(rreq[w].op, rreq[w].id, 200))
    /\ UNCHANGED <<recipe_tbl, ingr_tbl, step_tbl, ingr_seq, step_seq, rstarted,
                   viewVars, productVars, usersVars, storyVars, storiesVars>>

\* RecipeRetrieveUpdateDestroyAPIView.update: get_object(), is_valid()
RecipeUpdateBegin(w, c, partial, id, payload) ==
    RecipeDetailBegin(w, c, IF partial THEN "PATCH" ELSE "PUT", id, payload, "save")

AfterSave_always_replace(payload) == "ingredients_delete"

\* What follows instance.save() in RecipeCreateUpdateSerializer.update.
AfterSave(payload) ==
    IF "ingredients" \in DOMAIN payload THEN "ingredients_delete"
    ELSE IF "steps" \in DOMAIN payload THEN "steps_delete"
    ELSE "serialize"
AfterIngredients(payload) ==
    IF "steps" \in DOMAIN payload THEN "steps_delete" ELSE "serialize"

\* serializer.update: instance.save() writes every column of the instance
\* read by get_object(), view_count and is_active included.
RecipeUpdateSave(w) ==
    /\ rreq[w].pc = "save"
    /\ recipe_tbl' = [recipe_tbl EXCEPT ![rreq[w].id] = rreq[w].inst]
    /\ rreq' = [rreq EXCEPT ![w].pc = AfterSave(rreq[w].payload)]
    /\ UNCHANGED <<ingr_tbl, step_tbl, ingr_seq, step_seq, rresp, rstarted,
                   viewVars, productVars, usersVars, storyVars, storiesVars>>

ingredients_delete_none(tbl, id) == tbl

\* instance.ingredients.all().delete()
ingredients_delete(tbl, id) == tbl \ IngredientsOf(tbl, id)

\* serializer.update, when ingredients_data is not None: the old rows go first.
RecipeIngredientsDelete(w) ==
    /\ rreq[w].pc = "ingredients_delete"
    /\ ingr_tbl' = ingredients_delete(ingr_tbl, rreq[w].id)
    /\ rreq' = [rreq EXCEPT ![w].pc = "ingredients_create", ![w].i = 1]
    /\ UNCHANGED <<recipe_tbl, step_tbl, ingr_seq, step_seq, rresp, rstarted,
                   viewVars, productVars, usersVars, storyVars, storiesVars>>

\* RecipeProduct.objects.create(recipe=instance, product_id=product_id, **item)
RecipeIngredientCreate(w) ==
    /\ rreq[w].pc = "ingredients_create"
    /\ LET list == rreq[w].payload.ingredients
           i == rreq[w].i
       IN  /\ ingr_tbl' = ingr_tbl \cup
                  {[id |-> ingr_seq + 1, recipe |-> rreq[w].id, product |-> list[i]]}
           /\ ingr_seq' = ingr_seq + 1
           /\ rreq' = IF i < Len(list)
                      THEN [rreq EXCEPT ![w].i = i + 1]
                      ELSE [rreq EXCEPT ![w].pc = AfterIngredients(rreq[w].payload),
                                        ![w].i = 1]
    /\ UNCHANGED <<recipe_tbl, step_tbl, step_seq, rresp, rstarted,
                   viewVars, productVars, usersVars, storyVars, storiesVars>>

\* instance.steps.all().delete()
steps_delete(tbl, id) == tbl \ StepsOf(tbl, id)

\* serializer.update, when steps_data is not None: the old rows go first.
RecipeStepsDelete(w) ==
    /\ rreq[w].pc = "steps_delete"
    /\ step_tbl' = steps_delete(step_tbl, rreq[w].id)
    /\ rreq' = [rreq EXCEPT ![w].pc = "steps_create", ![w].i = 1]
    /\ UNCHANGED <<recipe_tbl, ingr_tbl, ingr_seq, step_seq, rresp, rstarted,
                   viewVars, productVars, usersVars, storyVars, storiesVars>>

\* RecipeStep.objects.create(recipe=instance, **step); unique_together
\* ('recipe', 'step_number') makes the store refuse a number already there,
\* and nothing catches the IntegrityError.
RecipeStepCreate(w) ==
    /\ rreq[w].pc = "steps_create"
    /\ LET list == rreq[w].payload.steps
           i == rreq[w].i
       IN  IF \E r \in StepsOf(step_tbl, rreq[w].id) : r.step_number = list[i] THEN
               /\ Answer(w, RecipeResp(rreq[w].op, rreq[w].id, 500))
               /\ UNCHANGED <<step_tbl, step_seq>>
           ELSE
               /\ step_tbl' = step_tbl \cup
                      {[id |-> step_seq + 1, recipe |-> rreq[w].id, step_number |-> list[i]]}
               /\ step_seq' = step_seq + 1
               /\ rreq' = IF i < Len(list)
                          THEN [rreq EXCEPT ![w].i = i + 1]
                          ELSE [rreq EXCEPT ![w].pc = "serialize", ![w].i = 1]
               /\ UNCHANGED rresp
    /\ UNCHANGED <<recipe_tbl, ingr_tbl, ingr_seq, rstarted, viewVars, productVars, usersVars, storyVars, storiesVars>>

\* RecipeRetrieveUpdateDestroyAPIView.destroy: get_object()
RecipeDestroyBegin(w, c, id) ==
    RecipeDetailBegin(w, c, "DELETE", id, EmptyPayload, "deactivate")

\* destroy: instance.is_active = False; instance.save(update_fields=['is_active'])
RecipeDestroySave(w) ==
    /\ rreq[w].pc = "deactivate"
    /\ recipe_tbl' = [recipe_tbl EXCEPT ![rreq[w].id].is_active = FALSE]
    /\ Answer(w, RecipeResp("DELETE", rreq[w].id, 204))
    /\ UNCHANGED <<ingr_tbl, step_tbl, ingr_seq, step_seq, rstarted,
                   viewVars, productVars, usersVars, storyVars, storiesVars>>

RecipeRequests(W) ==
    \E w \in W :
        \/ \E c \in Callers, payload \in RecipePayloads : RecipeCreate(w, c, payload)
        \/ RecipeList(w)
        \/ \E c \in Callers, id \in 1..(MaxRecipes + 1) : RecipeRetrieveBegin(w, c, id)
        \/ RecipeRetrieveSave(w)
        \/ RecipeSerialize(w)
        \/ \E c \in Callers, partial \in BOOLEAN, id \in 1..(MaxRecipes + 1),
              payload \in RecipePayloads : RecipeUpdateBegin(w, c, partial, id, payload)
        \/ RecipeUpdateSave(w)
        \/ RecipeIngredientsDelete(w)
        \/ RecipeIngredientCreate(w)
        \/ RecipeStepsDelete(w)
        \/ RecipeStepCreate(w)
        \/ \E c \in Callers, id \in 1..(MaxRecipes + 1) : RecipeDestroyBegin(w, c, id)
        \/ RecipeDestroySave(w)

\* ------------------------------------------------ apps.story endpoints

\* rest_framework.permissions.IsAuthenticatedOrReadOnly, the permission class
\* of StoryListCreateAPIView and StoryDetailRetrieveUpdateDestroyAPIView.
IsAuthenticatedOrReadOnly(c, method) ==
    method \in SafeMethods \/ is_authenticated(c)

StatusInputs == {"DRAFT", "PUBLISHED", "ARCHIVED"}
\* A timestamp of the request body: null or an instant of the clock.
TimeInputs == {None} \cup (1..(MaxTime - 1))

StoryKeys == {"status", "published_at", "expires_at", "is_active"}
StoryPayloads ==
    {Restrict(full, K) :
        full \in [status : StatusInputs, published_at : TimeInputs,
                  expires_at : TimeInputs, is_active : BOOLEAN],
        K \in SUBSET StoryKeys}

\* attrs.get(key)
Get(attrs, key) == IF key \in DOMAIN attrs THEN attrs[key] ELSE None

\* StoryCreateSerializer.validate_expires_at / StoryUpdateSerializer.validate_expires_at
validate_expires_at(value, t) == ~(value # None /\ value <= t)

\* StoryCreateSerializer.validate
validate(attrs) ==
    LET published_at == Get(attrs, "published_at")
        expires_at == Get(attrs, "expires_at")
    IN  ~(published_at # None /\ expires_at # None /\ expires_at <= published_at)

\* Story.get_active_stories
get_active_stories(tbl, t) ==
    {i \in DOMAIN tbl :
        /\ tbl[i].status = "PUBLISHED"
        /\ tbl[i].is_active
        /\ (tbl[i].expires_at = None \/ tbl[i].expires_at > t)}

\* The rows a response carries.
StoryData(tbl, ids) ==
    {[id |-> i, status |-> tbl[i].status, is_active |-> tbl[i].is_active,
      published_at |-> tbl[i].published_at, expires_at |-> tbl[i].expires_at] :
        i \in ids}

StoryResp(op, c, id, status, data) ==
    [op |-> op, caller |-> c, id |-> id, status |-> status, at |-> now,
     data |-> data]
NoStoryResp ==
    [op |-> "none", caller |-> "anon", id |-> None, status |-> 0, at |-> 0,
     data |-> {}]

\* The clock advances between requests.
Tick ==
    /\ now < MaxTime
    /\ now' = now + 1
    /\ UNCHANGED <<story_tbl, view_tbl, vreq, vresp, vstarted, productVars, usersVars,
                   recipeVars, storyVars, storiesVars>>

\* StoryListCreateAPIView.create: is_valid(), perform_create() and
\* StoryCreateSerializer.create, which stamp published_at on a PUBLISHED
\* story that has none.
StoryCreate(c, payload) ==
    /\ IF ~IsAuthenticatedOrReadOnly(c, "POST") THEN
           /\ sresp' = StoryResp("POST", c, None, 403, {})
           /\ UNCHANGED <<story_tbl, story_seq>>
       ELSE IF ~(validate_expires_at(Get(payload, "expires_at"), now) /\ validate(payload)) THEN
           /\ sresp' = StoryResp("POST", c, None, 400, {})
           /\ UNCHANGED <<story_tbl, story_seq>>
       ELSE
           LET id == story_seq + 1
               data == SetAttrs(StoryRow("DRAFT", TRUE, None, None, FALSE), payload)
               row == IF data.status = "PUBLISHED" /\ data.published_at = None
                      THEN [data EXCEPT !.published_at = now] ELSE data
           IN  /\ story_seq < MaxStories
               /\ story_tbl' = story_tbl @@ (id :> row)
               /\ story_seq' = id
               /\ sresp' = StoryResp("POST", c, id, 201, StoryData(story_tbl', {id}))
    /\ UNCHANGED <<now, view_tbl, vreq, vresp, vstarted, productVars, usersVars, recipeVars, storiesVars>>

\* StoryDetailRetrieveUpdateDestroyAPIView.get_queryset
StoryDetailQueryset(c, tbl, t) ==
    IF is_authenticated(c) /\ is_staff(c) THEN DOMAIN tbl
    ELSE get_active_stories(tbl, t)

\* StoryDetailRetrieveUpdateDestroyAPIView.retrieve
StoryRetrieve(c, id) ==
    /\ sresp' = IF id \in StoryDetailQueryset(c, story_tbl, now)
                THEN StoryResp("GET", c, id, 200, StoryData(story_tbl, {id}))
                ELSE StoryResp("GET", c, id, 404, {})
    /\ UNCHANGED <<viewVars, productVars, usersVars, recipeVars, story_seq, storiesVars>>

\* StoryDetailRetrieveUpdateDestroyAPIView.update with StoryUpdateSerializer:
\* the given fields are set on the instance and the instance is saved. Every
\* modelled field is optional for PUT as for PATCH, so the two coincide.
StoryUpdate(c, id, payload) ==
    /\ IF ~IsAuthenticatedOrReadOnly(c, "PATCH") THEN
           /\ sresp' = StoryResp("PATCH", c, id, 403, {})
           /\ UNCHANGED story_tbl
       ELSE IF id \notin StoryDetailQueryset(c, story_tbl, now) THEN
           /\ sresp' = StoryResp("PATCH", c, id, 404, {})
           /\ UNCHANGED story_tbl
       ELSE IF ~validate_expires_at(Get(payload, "expires_at"), now) THEN
           /\ sresp' = StoryResp("PATCH", c, id, 400, {})
           /\ UNCHANGED story_tbl
       ELSE
           /\ story_tbl' = [story_tbl EXCEPT ![id] = SetAttrs(story_tbl[id], payload)]
           /\ sresp' = StoryResp("PATCH", c, id, 200, StoryData(story_tbl', {id}))
    /\ UNCHANGED <<now, view_tbl, vreq, vresp, vstarted, productVars, usersVars, recipeVars,
                   story_seq, storiesVars>>

\* StoryDetailRetrieveUpdateDestroyAPIView.destroy: perform_destroy deletes
\* the row, and its StoryView rows with it (on_delete=CASCADE).
StoryDestroy(c, id) ==
    /\ IF ~IsAuthenticatedOrReadOnly(c, "DELETE") THEN
           /\ sresp' = StoryResp("DELETE", c, id, 403, {})
           /\ UNCHANGED <<story_tbl, view_tbl>>
       ELSE IF id \notin StoryDetailQueryset(c, story_tbl, now) THEN
           /\ sresp' = StoryResp("DELETE", c, id, 404, {})
           /\ UNCHANGED <<story_tbl, view_tbl>>
       ELSE
           /\ story_tbl' = [i \in DOMAIN story_tbl \ {id} |-> story_tbl[i]]
           /\ view_tbl' = {v \in view_tbl : v.story # id}
           /\ sresp' = StoryResp("DELETE", c, id, 200, {})
    /\ UNCHANGED <<now, vreq, vresp, vstarted, productVars, usersVars, recipeVars, story_seq, storiesVars>>

\* Query parameters of the story list: status and is_active, each optional.
StoryFilters ==
    {Restrict(full, K) :
        full \in [status : StatusInputs, is_active : BOOLEAN],
        K \in SUBSET {"status", "is_active"}}

\* StoryListCreateAPIView.get_queryset
StoryListQueryset(c, params, tbl, t) ==
    IF is_authenticated(c) /\ is_staff(c) THEN
        {i \in DOMAIN tbl :
            /\ "status" \in DOMAIN params => tbl[i].status = params.status
            /\ "is_active" \in DOMAIN params => tbl[i].is_active = params.is_active}
    ELSE get_active_stories(tbl, t)

\* StoryListCreateAPIView.list
StoryList(c, params) ==
    /\ sresp' = StoryResp("LIST", c, None, 200,
                          StoryData(story_tbl, StoryListQueryset(c, params, story_tbl, now)))
    /\ UNCHANGED <<viewVars, productVars, usersVars, recipeVars, story_seq, storiesVars>>

\* ActiveStoriesListAPIView.list
ActiveStoriesList(c) ==
    /\ sresp' = StoryResp("ACTIVE", c, None, 200,
                          StoryData(story_tbl, get_active_stories(story_tbl, now)))
    /\ UNCHANGED <<viewVars, productVars, usersVars, recipeVars, story_seq, storiesVars>>

\* Story.get_featured_stories
get_featured_stories(tbl, t) ==
    {i \in get_active_stories(tbl, t) : tbl[i].is_featured}

\* FeaturedStoriesListAPIView.list
FeaturedStoriesList(c) ==
    /\ sresp' = StoryResp("FEATURED", c, None, 200,
                          StoryData(story_tbl, get_featured_stories(story_tbl, now)))
    /\ UNCHANGED <<viewVars, productVars, usersVars, recipeVars, story_seq, storiesVars>>

\* Bodies that also choose is_featured.
StoryListingPayloads ==
    {Restrict(full, K) :
        full \in [status : StatusInputs, expires_at : TimeInputs, is_active : BOOLEAN,
                  is_featured : BOOLEAN],
        K \in SUBSET {"status", "expires_at", "is_active", "is_featured"}}

\* Stories are created and destroyed, the clock advances, and the public
\* listings are read.
NextListing ==
    \/ Tick
    \/ \E c \in Callers, payload \in StoryListingPayloads : StoryCreate(c, payload)
    \/ \E c \in Callers, id \in 1..MaxStories : StoryDestroy(c, id)
    \/ \E c \in Callers : ActiveStoriesList(c)
    \/ \E c \in Callers : FeaturedStoriesList(c)

\* The story update as a server worker runs it next to other requests:
\* get_object() reads the row, the serializer sets the given fields on that
\* instance, and instance.save() later writes every column of it, the
\* view_count read at the start included.
StoryUpdateBegin(w, c, id, payload) ==
    /\ vreq[w].pc = "idle"
    /\ vstarted < MaxViewRequests
    /\ vstarted' = vstarted + 1
    /\ IF ~IsAuthenticatedOrReadOnly(c, "PATCH") THEN
           /\ vresp' = [vresp EXCEPT ![w] = [status |-> 403, code |-> "update_forbidden"]]
           /\ UNCHANGED vreq
       ELSE IF id \notin StoryDetailQueryset(c, story_tbl, now) THEN
           /\ vresp' = [vresp EXCEPT ![w] = [status |-> 404, code |-> "update_not_found"]]
           /\ UNCHANGED vreq
       ELSE IF ~validate_expires_at(Get(payload, "expires_at"), now) THEN
           /\ vresp' = [vresp EXCEPT ![w] = [status |-> 400, code |-> "update_invalid"]]
           /\ UNCHANGED vreq
       ELSE
           /\ vreq' = [vreq EXCEPT ![w] =
                          [pc |-> "update", story |-> id, device |-> None, user |-> None,
                           snap |-> story_tbl[id].view_count,
                           inst |-> SetAttrs(story_tbl[id], payload)]]
           /\ vresp' = [vresp EXCEPT ![w] = NoResp]
    /\ UNCHANGED <<now, story_tbl, view_tbl, productVars, usersVars, recipeVars, storyVars,
                   storiesVars>>

\* perform_update: serializer.save(), that is instance.save()
StoryUpdateSave(w) ==
    /\ vreq[w].pc = "update"
    /\ story_tbl' = [story_tbl EXCEPT ![vreq[w].story] = vreq[w].inst]
    /\ vresp' = [vresp EXCEPT ![w] = [status |-> 200, code |-> "updated"]]
    /\ vreq' = [vreq EXCEPT ![w] = IdleReq]
    /\ UNCHANGED <<now, view_tbl, vstarted, productVars, usersVars, recipeVars, storyVars,
                   storiesVars>>

\* Bodies of the updates that run next to view recordings.
StoryFlagPayloads == {payload \in StoryPayloads : DOMAIN payload \subseteq {"is_active"}}

StoryUpdating(W) ==
    \E w \in W :
        \/ \E c \in Callers, id \in 1..2, payload \in StoryFlagPayloads :
               StoryUpdateBegin(w, c, id, payload)
        \/ StoryUpdateSave(w)

NextStory ==
    \/ Tick
    \/ \E c \in Callers, payload \in StoryPayloads : StoryCreate(c, payload)
    \/ \E c \in Callers, id \in 1..MaxStories : StoryRetrieve(c, id)
    \/ \E c \in Callers, id \in 1..MaxStories, payload \in StoryPayloads :
          StoryUpdate(c, id, payload)
    \/ \E c \in Callers, id \in 1..MaxStories : StoryDestroy(c, id)
    \/ \E c \in Callers, params \in StoryFilters : StoryList(c, params)
    \/ \E c \in Callers : ActiveStoriesList(c)

\* ---------------------------------------------- apps.stories endpoints

StoriesStatusInputs == {"ACTIVE", "EXPIRED", "DRAFT"}
\* expires_in_hours = serializers.IntegerField(..., default=24)
DefaultExpiresInHours == 24
\* One step of the clock is a day.
HoursPerTick == DefaultExpiresInHours
ExpiresInHoursInputs == {0, DefaultExpiresInHours}
StoriesPayloads ==
    {Restrict(full, K) :
        full \in [status : StoriesStatusInputs, expires_in_hours : ExpiresInHoursInputs],
        K \in SUBSET {"status", "expires_in_hours"}}

StoriesData(tbl, ids) ==
    {[id |-> i, status |-> tbl[i].status, is_active |-> tbl[i].is_active,
      expires_at |-> tbl[i].expires_at] : i \in ids}

StoriesResp(op, c, id, status, data) ==
    [op |-> op, caller |-> c, id |-> id, status |-> status, at |-> now,
     data |-> data]

\* The clock advances between requests.
StoriesTick ==
    /\ now < MaxTime
    /\ now' = now + 1
    /\ UNCHANGED <<story_tbl, view_tbl, vreq, vresp, vstarted, productVars, usersVars,
                   recipeVars, storyVars, storiesVars>>

\* StoryListCreateAPIView.create with StoryCreateSerializer.create:
\* expires_at = now + expires_in_hours.
StoriesCreate(c, payload) ==
    /\ IF ~IsAdminOrReadOnly(c, "POST") THEN
           /\ ssresp' = StoriesResp("POST", c, None, 403, {})
           /\ UNCHANGED <<stories_tbl, stories_seq>>
       ELSE
           LET id == stories_seq + 1
               hours == IF "expires_in_hours" \in DOMAIN payload
                        THEN payload.expires_in_hours ELSE DefaultExpiresInHours
               row == [status |-> IF "status" \in DOMAIN payload
                                  THEN payload.status ELSE "DRAFT",
                       is_active |-> TRUE,
                       expires_at |-> now + (hours \div HoursPerTick),
                       view_count |-> 0]
           IN  /\ stories_seq < MaxStories
               /\ stories_tbl' = stories_tbl @@ (id :> row)
               /\ stories_seq' = id
               /\ ssresp' = StoriesResp("POST", c, id, 201, StoriesData(stories_tbl', {id}))
    /\ UNCHANGED <<viewVars, productVars, usersVars, recipeVars, storyVars, sviews_tbl>>

\* StoryListCreateAPIView.get_queryset: expired_stories.update(...)
update_expired(tbl, t) ==
    [i \in DOMAIN tbl |->
        IF /\ tbl[i].is_active
           /\ tbl[i].status = "ACTIVE"
           /\ tbl[i].expires_at # None
           /\ tbl[i].expires_at <= t
        THEN [tbl[i] EXCEPT !.status = "EXPIRED", !.is_active = FALSE]
        ELSE tbl[i]]

\* StoryListCreateAPIView.get_queryset: the rows returned
StoriesListQueryset(tbl, t) ==
    {i \in DOMAIN tbl :
        /\ tbl[i].is_active
        /\ tbl[i].status = "ACTIVE"
        /\ tbl[i].expires_at # None
        /\ tbl[i].expires_at > t}

\* StoryListCreateAPIView.list
StoriesList(c) ==
    /\ stories_tbl' = update_expired(stories_tbl, now)
    /\ ssresp' = StoriesResp("LIST", c, None, 200,
                             StoriesData(stories_tbl', StoriesListQueryset(stories_tbl', now)))
    /\ UNCHANGED <<viewVars, productVars, usersVars, recipeVars, storyVars, sviews_tbl, stories_seq>>

\* The primary key the store gives the next apps.stories StoryView row.
NextStoriesViewId(tbl) ==
    IF tbl = {} THEN 1
    ELSE (CHOOSE i \in {v.id : v \in tbl} : \A j \in {v.id : v \in tbl} : j <= i) + 1

get_or_create_always_creates(tbl, s, u) ==
    tbl \cup {[id |-> NextStoriesViewId(tbl), story |-> s, user |-> u]}

\* StoryView.objects.get_or_create(story=instance, user=request.user)
get_or_create(tbl, s, u) ==
    IF \E v \in tbl : v.story = s /\ v.user = u
    THEN tbl
    ELSE tbl \cup {[id |-> NextStoriesViewId(tbl), story |-> s, user |-> u]}

\* StoryDetailAPIView.retrieve over queryset = Story.objects.all(): an
\* authenticated caller is recorded as a viewer and the counter is raised.
StoriesRetrieve(c, id) ==
    /\ IF id \notin DOMAIN stories_tbl THEN
           /\ ssresp' = StoriesResp("GET", c, id, 404, {})
           /\ UNCHANGED <<stories_tbl, sviews_tbl>>
       ELSE IF is_authenticated(c) THEN
           /\ stories_tbl[id].view_count < MaxStoryViews
           /\ sviews_tbl' = get_or_create(sviews_tbl, id, c)
           /\ stories_tbl' = [stories_tbl EXCEPT ![id].view_count = @ + 1]
           /\ ssresp' = StoriesResp("GET", c, id, 200, StoriesData(stories_tbl', {id}))
       ELSE
           /\ ssresp' = StoriesResp("GET", c, id, 200, StoriesData(stories_tbl, {id}))
           /\ UNCHANGED <<stories_tbl, sviews_tbl>>
    /\ UNCHANGED <<viewVars, productVars, usersVars, recipeVars, storyVars, stories_seq>>

\* StoryDetailAPIView update (PUT, PATCH) with StoryCreateSerializer: of the
\* modelled fields only status is a column the serializer writes.
StoriesUpdate(c, id, payload) ==
    /\ IF ~IsAdminOrReadOnly(c, "PATCH") THEN
           /\ ssresp' = StoriesResp("PATCH", c, id, 403, {})
           /\ UNCHANGED stories_tbl
       ELSE IF id \notin DOMAIN stories_tbl THEN
           /\ ssresp' = StoriesResp("PATCH", c, id, 404, {})
           /\ UNCHANGED stories_tbl
       ELSE
           /\ stories_tbl' = [stories_tbl EXCEPT ![id].status =
                                 IF "status" \in DOMAIN payload THEN payload.status ELSE @]
           /\ ssresp' = StoriesResp("PATCH", c, id, 200, StoriesData(stories_tbl', {id}))
    /\ UNCHANGED <<viewVars, productVars, usersVars, recipeVars, storyVars, sviews_tbl, stories_seq>>

\* StoryDetailAPIView destroy: the row is deleted, its StoryView rows with it.
StoriesDestroy(c, id) ==
    /\ IF ~IsAdminOrReadOnly(c, "DELETE") THEN
           /\ ssresp' = StoriesResp("DELETE", c, id, 403, {})
           /\ UNCHANGED <<stories_tbl, sviews_tbl>>
       ELSE IF id \notin DOMAIN stories_tbl THEN
           /\ ssresp' = StoriesResp("DELETE", c, id, 404, {})
           /\ UNCHANGED <<stories_tbl, sviews_tbl>>
       ELSE
           /\ stories_tbl' = [i \in DOMAIN stories_tbl \ {id} |-> stories_tbl[i]]
           /\ sviews_tbl' = {v \in sviews_tbl : v.story # id}
           /\ ssresp' = StoriesResp("DELETE", c, id, 204, {})
    /\ UNCHANGED <<viewVars, productVars, usersVars, recipeVars, storyVars, stories_seq>>

NextStories ==
    \/ StoriesTick
    \/ \E c \in Callers, payload \in StoriesPayloads : StoriesCreate(c, payload)
    \/ \E c \in Callers : StoriesList(c)
    \/ \E c \in Callers, id \in 1..MaxStories : StoriesRetrieve(c, id)
    \/ \E c \in Callers, id \in 1..MaxStories, payload \in StoriesPayloads :
          StoriesUpdate(c, id, payload)
    \/ \E c \in Callers, id \in 1..MaxStories : StoriesDestroy(c, id)

\* ------------------------------------------------------ accounts (apps.users)

\* Strings are sequences of characters; Blank is ''.
Blank == <<>>
Digits == {"1", "2", "3"}

\* str.replace(ch, ''): the string without the characters in chars.
RECURSIVE Strip(_, _)
Strip(s, chars) ==
    IF s = Blank THEN Blank
    ELSE IF Head(s) \in chars THEN Strip(Tail(s), chars)
    ELSE <<Head(s)>> \o Strip(Tail(s), chars)

\* str.isdigit(): at least one character and every character a digit.
isdigit(s) ==
    s # Blank /\ \A k \in DOMAIN s : s[k] \in Digits

\* '@' in identifier
Contains(s, ch) ==
    \E k \in DOMAIN s : s[k] = ch

\* Password hashing of the auth framework: set_password / check_password.
make_password(raw) == <<"hash", raw>>
check_password(raw, encoded) == encoded = make_password(raw)

UserRow(username, email, phone_number, password, is_active) ==
    [username |-> username, email |-> email, phone_number |-> phone_number,
     password |-> make_password(password), is_active |-> is_active]

\* User.objects.filter(<field>=value)
UsersBy(tbl, field, value) ==
    {id \in DOMAIN tbl : tbl[id][field] = value}

\* The column User.objects.get is called with: email when the identifier
\* holds '@'; phone_number when what is left after removing '+', '-' and
\* spaces is all digits; username otherwise.
LookupField(identifier) ==
    IF Contains(identifier, "@") THEN "email"
    ELSE IF isdigit(Strip(identifier, {"+", "-", " "})) THEN "phone_number"
    ELSE "username"

LoginFailure(message) == [status |-> 400, message |-> message, user |-> None]

LoginValidate_UnknownTold(tbl, identifier, password) ==
    LET found == UsersBy(tbl, LookupField(identifier), identifier)
    IN  IF found = {} THEN LoginFailure("User not found.")
        ELSE LET id == CHOOSE i \in found : TRUE
             IN  IF ~check_password(password, tbl[id].password)
                 THEN LoginFailure("Invalid credentials.")
                 ELSE IF ~tbl[id].is_active
                 THEN LoginFailure("User account is disabled.")
                 ELSE [status |-> 200, message |-> "Login successful", user |-> id]

LoginValidate_UsernameFallback(tbl, identifier, password) ==
    LET first == UsersBy(tbl, LookupField(identifier), identifier)
        found == IF first # {} THEN first ELSE UsersBy(tbl, "username", identifier)
    IN  IF found = {} THEN LoginFailure("Invalid credentials.")
        ELSE LET id == CHOOSE i \in found : TRUE
             IN  IF ~check_password(password, tbl[id].password)
                 THEN LoginFailure("Invalid credentials.")
                 ELSE IF ~tbl[id].is_active
                 THEN LoginFailure("User account is disabled.")
                 ELSE [status |-> 200, message |-> "Login successful", user |-> id]

\* LoginSerializer.validate and the response LoginView.post builds from it:
\* one lookup, then the password, then is_active.
LoginValidate(tbl, identifier, password) ==
    LET found == UsersBy(tbl, LookupField(identifier), identifier)
    IN  IF found = {} THEN LoginFailure("Invalid credentials.")
        ELSE LET id == CHOOSE i \in found : TRUE
             IN  IF ~check_password(password, tbl[id].password)
                 THEN LoginFailure("Invalid credentials.")
                 ELSE IF ~tbl[id].is_active
                 THEN LoginFailure("User account is disabled.")
                 ELSE [status |-> 200, message |-> "Login successful", user |-> id]

LoginIdentifiers ==
    {<<"a">>, <<"c">>, <<"1">>, <<"+">>, <<"a", "@">>, <<"b", "@">>, <<"d", "@">>,
     <<"+", "1">>, <<"2">>, <<"3", "-", "3">>}
PasswordInputs == {1, 2}

\* LoginView.post
Login(identifier, password) ==
    /\ ustarted < MaxUserRequests
    /\ ustarted' = ustarted + 1
    /\ lreq' = [n |-> ustarted + 1, identifier |-> identifier, password |-> password]
    /\ lresp' = LoginValidate(user_tbl, identifier, password)
    /\ UNCHANGED <<user_tbl, ureq, uresp, viewVars, productVars, recipeVars,
                   storyVars, storiesVars>>

UsernameInputs == {<<"a">>, <<"c">>, <<"+">>}
EmailInputs == {<<"a", "@">>, <<"c", "@">>, <<"d", "@">>}
PhoneInputs == {Blank, <<"+", "1">>, <<"3", "-", "3">>}

RegisterPayloads ==
    [username : UsernameInputs, email : EmailInputs, phone_number : PhoneInputs,
     password : {1}, password_confirm : PasswordInputs]

IdleRegister == [pc |-> "idle", payload |-> Blank]
RegisterResp(status, key, id) == [status |-> status, key |-> key, id |-> id]
NoRegisterResp == RegisterResp(0, "none", None)

\* RegisterSerializer.validate: the key of the error it raises, "none" when
\* the payload passes.
RegisterValidate(tbl, attrs) ==
    IF attrs.password # attrs.password_confirm THEN "password"
    ELSE IF UsersBy(tbl, "email", attrs.email) # {} THEN "email"
    ELSE IF UsersBy(tbl, "username", attrs.username) # {} THEN "username"
    ELSE IF attrs.phone_number # Blank
            /\ UsersBy(tbl, "phone_number", attrs.phone_number) # {} THEN "phone_number"
    ELSE "none"

\* RegisterView.post up to serializer.is_valid(): 400 with the field's key,
\* or on to serializer.save().
RegisterBegin(w, attrs) ==
    /\ ureq[w].pc = "idle"
    /\ ustarted < MaxUserRequests
    /\ ustarted' = ustarted + 1
    /\ LET key == RegisterValidate(user_tbl, attrs)
       IN  IF key # "none" THEN
               /\ uresp' = [uresp EXCEPT ![w] = RegisterResp(400, key, None)]
               /\ UNCHANGED ureq
           ELSE
               /\ ureq' = [ureq EXCEPT ![w] = [pc |-> "save", payload |-> attrs]]
               /\ uresp' = [uresp EXCEPT ![w] = NoRegisterResp]
    /\ UNCHANGED <<user_tbl, lreq, lresp, viewVars, productVars, recipeVars,
                   storyVars, storiesVars>>

\* The UNIQUE columns of the user table: username, email, phone_number.
UniqueViolation(tbl, row) ==
    \E f \in {"username", "email", "phone_number"} : UsersBy(tbl, f, row[f]) # {}

NextUserId == Len(user_tbl) + 1

\* RegisterSerializer.create: create_user with the validated values, an
\* omitted phone_number stored as ''; RegisterView.post catches nothing, so an
\* IntegrityError of the INSERT leaves the view as an unhandled error (500).
RegisterSave(w) ==
    /\ ureq[w].pc = "save"
    /\ LET a == ureq[w].payload
           row == UserRow(a.username, a.email, a.phone_number, a.password, TRUE)
       IN  IF UniqueViolation(user_tbl, row) THEN
               /\ uresp' = [uresp EXCEPT ![w] = RegisterResp(500, "IntegrityError", None)]
               /\ UNCHANGED user_tbl
           ELSE
               /\ user_tbl' = Append(user_tbl, row)
               /\ uresp' = [uresp EXCEPT ![w] = RegisterResp(201, "none", NextUserId)]
    /\ ureq' = [ureq EXCEPT ![w] = IdleRegister]
    /\ UNCHANGED <<ustarted, lreq, lresp, viewVars, productVars, recipeVars,
                   storyVars, storiesVars>>

Register(W) ==
    \E w \in W :
        \/ \E attrs \in RegisterPayloads : RegisterBegin(w, attrs)
        \/ RegisterSave(w)

NextUsers ==
    \/ Register(UserWorkers)
    \/ \E identifier \in LoginIdentifiers, password \in PasswordInputs :
          Login(identifier, password)

\* No account yet.
InitUsers ==
    /\ user_tbl = <<>>
    /\ ureq = [w \in UserWorkers |-> IdleRegister]
    /\ uresp = [w \in UserWorkers |-> NoRegisterResp]
    /\ ustarted = 0
    /\ lreq = [n |-> 0, identifier |-> Blank, password |-> 0]
    /\ lresp = [status |-> 0, message |-> "none", user |-> None]

InitStories ==
    /\ stories_tbl = <<>>
    /\ sviews_tbl = {}
    /\ stories_seq = 0
    /\ ssresp = NoStoryResp

InitRecipeTables ==
    /\ recipe_tbl = <<>>
    /\ ingr_tbl = {}
    /\ step_tbl = {}
    /\ ingr_seq = 0
    /\ step_seq = 0
    /\ rreq = [w \in RecipeWorkers |-> IdleRecipeReq]
    /\ rresp = [w \in RecipeWorkers |-> NoRecipeResp]
    /\ rstarted = 0

InitProduct ==
    /\ product_tbl = <<>>
    /\ media_tbl = {}
    /\ media_seq = 0
    /\ presp = [op |-> "none", id |-> None, status |-> 0, data |-> {}]

InitViewRequests ==
    /\ view_tbl = {}
    /\ vreq = [w \in ViewWorkers |-> IdleReq]
    /\ vresp = [w \in ViewWorkers |-> NoResp]
    /\ vstarted = 0

\* No story yet.
InitStory ==
    /\ now = 1
    /\ story_tbl = <<>>
    /\ story_seq = 0
    /\ sresp = NoStoryResp

\* A store holding a published story and a draft, both created by staff.
InitView ==
    /\ InitProduct
    /\ InitRecipeTables
    /\ InitViewRequests
    /\ now = 1
    /\ story_tbl = (1 :> [StoryRow("PUBLISHED", TRUE, 1, None, FALSE) EXCEPT !.action_url = 1]
                    @@ 2 :> [StoryRow("DRAFT", TRUE, None, None, FALSE) EXCEPT !.action_url = 2])
    /\ story_seq = 2
    /\ sresp = NoStoryResp
    /\ InitStories
    /\ InitUsers

\* A store holding a published story that expires at time 2, a draft, an
\* archived story and a published story that was deactivated.
InitViewKinds ==
    /\ InitProduct
    /\ InitRecipeTables
    /\ InitViewRequests
    /\ now = 1
    /\ story_tbl = (1 :> StoryRow("PUBLISHED", TRUE, 1, 2, FALSE)
                    @@ 2 :> StoryRow("DRAFT", TRUE, None, None, FALSE)
                    @@ 3 :> StoryRow("ARCHIVED", TRUE, 1, None, FALSE)
                    @@ 4 :> StoryRow("PUBLISHED", FALSE, 1, None, FALSE))
    /\ story_seq = 4
    /\ sresp = NoStoryResp
    /\ InitStories
    /\ InitUsers

\* View recording, one request at a time, while the clock advances.
NextViewKinds ==
    \/ Tick
    \/ \E s \in {None} \cup (1..4), d \in Devices \cup {None}, u \in Users \cup {None} :
          ViewValidate(1, s, d, u)
    \/ ViewSave(1)
    \/ ViewIncrement(1)
SpecViewKinds == InitViewKinds /\ [][NextViewKinds]_vars

\* The empty store after migration.
Init ==
    /\ InitProduct
    /\ InitRecipeTables
    /\ InitViewRequests
    /\ InitStory
    /\ InitStories
    /\ InitUsers

\* A store holding an active account and a disabled one, and nothing else.
InitAccounts ==
    /\ InitProduct
    /\ InitRecipeTables
    /\ InitViewRequests
    /\ InitStory
    /\ InitStories
    /\ user_tbl = <<UserRow(<<"1">>, <<"a", "@">>, <<"+", "1">>, 1, TRUE),
                    UserRow(<<"a">>, <<"b", "@">>, <<"2">>, 1, FALSE)>>
    /\ ureq = [w \in UserWorkers |-> IdleRegister]
    /\ uresp = [w \in UserWorkers |-> NoRegisterResp]
    /\ ustarted = 0
    /\ lreq = [n |-> 0, identifier |-> Blank, password |-> 0]
    /\ lresp = [status |-> 0, message |-> "none", user |-> None]

\* Registration and login, registrations by concurrent requests.
SpecUsers == InitAccounts /\ [][NextUsers]_vars

\* The product endpoints.
SpecProduct == Init /\ [][NextProduct]_vars
SpecProductText == Init /\ [][NextProductText]_vars

\* The apps.story story endpoints, one request at a time.
SpecStory == Init /\ [][NextStory]_vars
SpecListing == Init /\ [][NextListing]_vars

\* The routed apps.stories endpoints, one request at a time.
SpecStories == Init /\ [][NextStories]_vars

\* A store with two active products and an inactive one, and no recipe.
SeedProduct(active) ==
    [price |-> 100, discount |-> 0, real_price |-> 100, is_active |-> active,
     title_uz |-> "a", title_en |-> "a", title_ru |-> "a",
     description_uz |-> "a", description_en |-> "a", description_ru |-> "a"]

InitRecipe ==
    /\ product_tbl = (1 :> SeedProduct(TRUE) @@ 2 :> SeedProduct(TRUE)
                      @@ 3 :> SeedProduct(FALSE))
    /\ media_tbl = {}
    /\ media_seq = 0
    /\ presp = [op |-> "none", id |-> None, status |-> 0, data |-> {}]
    /\ InitRecipeTables
    /\ InitViewRequests
    /\ InitStory
    /\ InitStories
    /\ InitUsers

\* The recipe endpoints, one request at a time.
NextRecipeSeq == RecipeRequests({1})
SpecRecipeSeq == InitRecipe /\ [][NextRecipeSeq]_vars

\* Bodies of product updates that leave the product's own columns as they
\* are and differ in whether, and how many, images they carry.
ProductImagePayloads ==
    {payload \in ProductPayloads :
        /\ DOMAIN payload \subseteq RequiredTextKeys \cup {"price", "images"}
        /\ "price" \in DOMAIN payload => payload.price = SeedProduct(TRUE).price}

\* The recipe endpoints and product updates, one request at a time.
NextPartial ==
    \/ RecipeRequests({1})
    \/ \E partial \in BOOLEAN, payload \in ProductImagePayloads :
           ProductUpdate(1, partial, payload)
SpecPartial == InitRecipe /\ [][NextPartial]_vars

\* The recipe endpoints under concurrent requests.
NextRecipe == RecipeRequests(RecipeWorkers)
SpecRecipe == InitRecipe /\ [][NextRecipe]_vars

\* View recording, one request at a time.
NextViewSeq == ViewRecording({1})
SpecViewSeq == InitView /\ [][NextViewSeq]_vars

\* View recording by concurrent requests.
NextView == ViewRecording(ViewWorkers)
SpecView == InitView /\ [][NextView]_vars

\* View and click recording, one request at a time.
NextTrackSeq == ViewRecording({1}) \/ ClickRecording({1})
SpecTrackSeq == InitView /\ [][NextTrackSeq]_vars

\* View and click recording by concurrent requests.
NextTrack == ViewRecording(ViewWorkers) \/ ClickRecording(ViewWorkers)
SpecTrack == InitView /\ [][NextTrack]_vars

\* View recordings and story updates by concurrent requests.
NextCount == ViewRecording(ViewWorkers) \/ StoryUpdating(ViewWorkers)
SpecCount == InitView /\ [][NextCount]_vars

AllViewsIdle == \A w \in ViewWorkers : vreq[w].pc = "idle"

\* The (device, user) pairs that have a StoryView row for story s.
ViewersOf(s) == {<<v.device, v.user>> : v \in {x \in view_tbl : x.story = s}}

\* C1: recording a view again with the same (story, device, user) triple,
\* device and user possibly omitted, leaves exactly one StoryView row for
\* the triple and one increment of view_count: no triple ever has two rows,
\* and once every request has been answered a story's view_count is the
\* number of triples recorded for it.
C1_OneRowOneIncrement ==
    /\ \A s \in DOMAIN story_tbl, d \in Devices \cup {None}, u \in Users \cup {None} :
           Cardinality(ViewsOf(s, d, u)) <= 1
    /\ AllViewsIdle =>
           \A s \in DOMAIN story_tbl : story_tbl[s].view_count = Cardinality(ViewersOf(s))

\* C2: under every interleaving of concurrent view recordings with the same
\* triple at most one row for the triple exists, and no request is refused
\* for being the duplicate: the loser is answered 200, never an error.
C2_RaceSafe ==
    /\ \A s \in DOMAIN story_tbl, d \in Devices \cup {None}, u \in Users \cup {None} :
           Cardinality(ViewsOf(s, d, u)) <= 1
    /\ \A w \in ViewWorkers : vresp[w].code # "unique"

\* ------------------------------------------------------------ product claims

C4_SoftDelete ==
    [][/\ DOMAIN product_tbl \subseteq DOMAIN product_tbl'
       /\ (presp'.op = "destroy" /\ presp'.status = 204) =>
              LET id == presp'.id
                  got == ProductRetrieveResponse(product_tbl', id)
              IN  /\ id \in DOMAIN product_tbl'
                  /\ got.status = 200
                  /\ got.data = {[id |-> id, is_active |-> FALSE]}
                  /\ \A d \in ProductListResponse(product_tbl').data : d.id # id
                  /\ media_tbl' = media_tbl]_vars

\* A DELETE of a product that owns media has been answered 204.
C4_Witness ==
    /\ presp.op = "destroy" /\ presp.status = 204
    /\ MediaOf(presp.id) # {}

\* The update whose writes are all done and whose 200 is about to be sent.
UpdateDone(w) ==
    /\ rreq[w].pc = "serialize"
    /\ rreq[w].op \in {"PUT", "PATCH"}

\* C5: when a recipe update that carried ingredients (respectively steps)
\* has succeeded, the recipe's stored rows are exactly the payload's entries
\* in payload order: as many rows as the payload has entries, each of them
\* created by this update (they are the most recently created rows), so no
\* row of the previous set survives.
C5_UpdateReplaces ==
    \A w \in RecipeWorkers :
        UpdateDone(w) =>
            LET payload == rreq[w].payload
                ingr == IngredientsOf(ingr_tbl, rreq[w].id)
                steps == StepsOf(step_tbl, rreq[w].id)
            IN  /\ "ingredients" \in DOMAIN payload =>
                       LET n == Len(payload.ingredients)
                       IN  /\ Cardinality(ingr) = n
                           /\ {r.id : r \in ingr} = (ingr_seq - n + 1)..ingr_seq
                           /\ \A r \in ingr :
                                  r.product = payload.ingredients[r.id - (ingr_seq - n)]
                /\ "steps" \in DOMAIN payload =>
                       LET n == Len(payload.steps)
                       IN  /\ Cardinality(steps) = n
                           /\ {r.id : r \in steps} = (step_seq - n + 1)..step_seq
                           /\ \A r \in steps :
                                  r.step_number = payload.steps[r.id - (step_seq - n)]

\* A recipe created with one ingredient and two steps has been updated with
\* two ingredients and one step.
C5_Witness ==
    \E w \in RecipeWorkers :
        /\ UpdateDone(w)
        /\ rreq[w].payload = [ingredients |-> <<1, 2>>, steps |-> <<1>>]
        /\ ingr_seq = 3
        /\ step_seq = 3

\* C6: under every interleaving of detail retrievals, updates and
\* soft-deletes, no step lowers the stored view_count of a recipe.
C6_ViewCountMonotone ==
    [][\A id \in DOMAIN recipe_tbl :
          recipe_tbl'[id].view_count >= recipe_tbl[id].view_count]_vars
\* C7: every story whose status is PUBLISHED has a published_at, whether it
\* was created as PUBLISHED or updated to PUBLISHED.
C7_PublishedHasPublishedAt ==
    \A i \in DOMAIN story_tbl :
        story_tbl[i].status = "PUBLISHED" => story_tbl[i].published_at # None

\* C8: every story that has both published_at and expires_at has expires_at
\* strictly after published_at, after any create or update.
C8_ExpiresAfterPublished ==
    \A i \in DOMAIN story_tbl :
        (story_tbl[i].published_at # None /\ story_tbl[i].expires_at # None)
            => story_tbl[i].expires_at > story_tbl[i].published_at

\* A returned story is publicly visible at instant t: published (ACTIVE in
\* apps.stories), active and not expired.
PubliclyVisible(d, t) ==
    /\ d.status \in {"PUBLISHED", "ACTIVE"}
    /\ d.is_active
    /\ ~(d.expires_at # None /\ t > d.expires_at)

\* C9: every story that a list or detail endpoint returns to a caller who is
\* not staff is published, active and not expired at the time of the request.
C9_PublicSeesActiveOnly ==
    \A r \in {sresp, ssresp} :
        (r.op \in {"GET", "LIST", "ACTIVE"} /\ ~is_staff(r.caller))
            => \A d \in r.data : PubliclyVisible(d, r.at)

\* C10: every create, update or delete of a story asked by a caller without
\* the staff flag, anonymous or authenticated, is refused, and no step on
\* behalf of such a caller changes a story row.
C10_WritesNeedStaff ==
    /\ [](\A r \in {sresp, ssresp} :
            (r.op \in {"POST", "PATCH", "DELETE"} /\ ~is_staff(r.caller))
                => r.status \in {401, 403})
    /\ [][(story_tbl' # story_tbl => is_staff(sresp'.caller))
          /\ (stories_tbl' # stories_tbl /\ ssresp'.op # "GET" /\ ssresp'.op # "LIST"
                => is_staff(ssresp'.caller))]_vars

\* C11: every stored product has a price above 0 and a discount within
\* 0..100, after any create or update.
C11_PriceDiscountInRange ==
    \A i \in DOMAIN product_tbl :
        /\ product_tbl[i].price > 0
        /\ product_tbl[i].discount >= 0
        /\ product_tbl[i].discount <= 100

\* C12: a click on an unknown story id is answered 404 and a click on a story
\* that is not published is answered 400, neither changing any story; a click
\* on a published story is accepted, raises that story's click_count by
\* exactly 1, changes nothing else and returns that story's action_url.
C12_ClickRecording ==
    [][\A w \in ViewWorkers :
          /\ (vstarted' # vstarted /\ vresp'[w].code = "click_not_found")
                => /\ vresp'[w].story \notin DOMAIN story_tbl
                   /\ vresp'[w].status = 404
                   /\ story_tbl' = story_tbl
          /\ (vstarted' # vstarted /\ vresp'[w].code = "click_unavailable")
                => /\ vresp'[w].story \in DOMAIN story_tbl
                   /\ ~is_published(story_tbl[vresp'[w].story], now)
                   /\ vresp'[w].status = 400
                   /\ story_tbl' = story_tbl
          /\ (vreq[w].pc = "idle" /\ vreq'[w].pc = "click")
                => /\ vreq'[w].story \in DOMAIN story_tbl
                   /\ is_published(story_tbl[vreq'[w].story], now)
          /\ (vreq[w].pc = "click" /\ vreq'[w].pc = "idle")
                => LET pk == vreq[w].story
                   IN  /\ is_published(story_tbl[pk], now)
                       /\ story_tbl' = [story_tbl EXCEPT ![pk].click_count = @ + 1]
                       /\ vresp'[w].status = 200
                       /\ vresp'[w].action_url = story_tbl[pk].action_url
                       /\ vresp'[w].action_url = story_tbl'[vresp'[w].story].action_url]_vars

\* The second accepted click on a published story has answered.
C12_Witness ==
    /\ vresp[1].code = "clicked"
    /\ vresp[1].total_clicks = 2
    /\ story_tbl[1].click_count = 2

\* C13: for every stored story at every time, is_expired is true exactly when
\* expires_at is set and strictly before the current time, and is_published is
\* true exactly when the status is PUBLISHED, is_active is true and the story
\* is not expired; both are computed from the row and the clock at the read.
C13_ExpiryDerived ==
    \A i \in DOMAIN story_tbl :
        LET st == story_tbl[i]
            past == st.expires_at # None /\ st.expires_at < now
        IN  /\ is_expired(st, now) <=> past
            /\ is_published(st, now) <=> (st.status = "PUBLISHED" /\ st.is_active /\ ~past)

\* A published, active story is read after its expiry time: it is no longer
\* published although its row was not written since.
C13_Witness ==
    \E i \in DOMAIN story_tbl :
        /\ story_tbl[i].status = "PUBLISHED"
        /\ story_tbl[i].is_active
        /\ story_tbl[i].expires_at # None
        /\ now > story_tbl[i].expires_at
        /\ ~is_published(story_tbl[i], now)
        /\ is_published(story_tbl[i], story_tbl[i].expires_at)

\* C14: a view-recording request whose (story, device, user) triple already
\* has a row is never refused as a duplicate; it is answered 200 'already
\* recorded' and leaves the view rows and every view_count as they were.
C14_DuplicateAnswered200 ==
    [][\A w \in ViewWorkers :
          /\ (vstarted' # vstarted) => vresp'[w].code # "unique"
          /\ (vreq[w].pc = "save"
                /\ ViewsOf(vreq[w].story, vreq[w].device, vreq[w].user) # {})
                => /\ vresp'[w].status = 200
                   /\ vresp'[w].code = "already_recorded"
                   /\ view_tbl' = view_tbl
                   /\ story_tbl' = story_tbl]_vars

\* C15: the counter increments are unsynchronised read-modify-writes: a
\* request reads the counter when it loads the story and later writes that
\* value plus 1, whatever other requests have written in between, so two
\* concurrent increments can leave the counter only 1 higher.
C15_ReadModifyWrite ==
    [][\A w \in ViewWorkers :
          /\ (vreq[w].pc = "idle" /\ vreq'[w].pc = "save")
                => vreq'[w].snap = story_tbl[vreq'[w].story].view_count
          /\ (vreq[w].pc = "idle" /\ vreq'[w].pc = "click")
                => vreq'[w].snap = story_tbl[vreq'[w].story].click_count
          /\ (vreq[w].pc = "increment" /\ vreq'[w].pc = "idle")
                => story_tbl' = [story_tbl EXCEPT
                                    ![vreq[w].story].view_count = vreq[w].snap + 1]
          /\ (vreq[w].pc = "click" /\ vreq'[w].pc = "idle")
                => story_tbl' = [story_tbl EXCEPT
                                    ![vreq[w].story].click_count = vreq[w].snap + 1]]_vars

\* Two concurrent view recordings have both been answered 201, two rows are
\* stored for the story, and its view_count is 1.
C15_Witness ==
    /\ \A w \in ViewWorkers : vreq[w].pc = "idle" /\ vresp[w].code = "created"
    /\ Cardinality({v \in view_tbl : v.story = 1}) = 2
    /\ story_tbl[1].view_count = 1
    /\ story_tbl[1].click_count = 0

\* C16: every registration ends with a new user (201) or a field-keyed 400:
\* under every sequence and interleaving of registrations no uniqueness
\* violation of the store is left unhandled, and no two stored users share a
\* username, an email or a phone number.
C16_RegistrationHandled ==
    /\ \A w \in UserWorkers :
          /\ uresp[w].status \in {0, 201, 400}
          /\ uresp[w].status = 400
                => uresp[w].key \in {"password", "email", "username", "phone_number"}
    /\ \A i, j \in DOMAIN user_tbl :
          i # j => /\ user_tbl[i].username # user_tbl[j].username
                   /\ user_tbl[i].email # user_tbl[j].email
                   /\ user_tbl[i].phone_number # user_tbl[j].phone_number

\* The accounts the login of the last request could have meant, and whether
\* its password is wrong for all of them.
LastLoginAccounts ==
    UsersBy(user_tbl, LookupField(lreq.identifier), lreq.identifier)

\* C17: a failed login does not tell whether the identifier exists: for every
\* lookup path, the response for an unknown identifier is the response for an
\* existing account given a wrong password.
C17_NoEnumeration ==
    /\ \A i1, i2 \in LoginIdentifiers, p1, p2 \in PasswordInputs :
          LET known == UsersBy(user_tbl, LookupField(i2), i2)
          IN  (/\ UsersBy(user_tbl, LookupField(i1), i1) = {}
               /\ known # {}
               /\ \A id \in known : ~check_password(p2, user_tbl[id].password))
                  => LoginValidate(user_tbl, i1, p1) = LoginValidate(user_tbl, i2, p2)
    /\ (/\ lreq.n > 0
        /\ \A id \in LastLoginAccounts : ~check_password(lreq.password, user_tbl[id].password))
          => lresp = [status |-> 400, message |-> "Invalid credentials.", user |-> None]

\* A login by phone number on an existing account with a wrong password has
\* been refused, while another identifier of the same path is unknown.
C17_Witness ==
    /\ lreq.n > 0
    /\ LookupField(lreq.identifier) = "phone_number"
    /\ LastLoginAccounts # {}
    /\ \A id \in LastLoginAccounts : ~check_password(lreq.password, user_tbl[id].password)
    /\ lresp.status = 400
    /\ \E i \in LoginIdentifiers :
          LookupField(i) = "phone_number" /\ UsersBy(user_tbl, "phone_number", i) = {}

\* C18: a login on a disabled account is answered with the generic error of
\* an unknown identifier or a wrong password, whether or not the password is
\* correct.
C18_DisabledGeneric ==
    (/\ lreq.n > 0
     /\ \E id \in LastLoginAccounts : ~user_tbl[id].is_active)
       => lresp = [status |-> 400, message |-> "Invalid credentials.", user |-> None]

\* C19: login resolves the account by one lookup, by email when the
\* identifier holds '@', else by phone number when it is made of digits, '+',
\* '-' and spaces with at least one digit, else by username, and succeeds
\* exactly when that account exists, the password matches and it is active.
C19_OneLookup ==
    [][lreq' # lreq =>
          LET i == lreq'.identifier
              field == IF \E k \in DOMAIN i : i[k] = "@" THEN "email"
                       ELSE IF /\ \A k \in DOMAIN i : i[k] \in Digits \cup {"+", "-", " "}
                               /\ \E k \in DOMAIN i : i[k] \in Digits
                            THEN "phone_number"
                       ELSE "username"
              account == {id \in DOMAIN user_tbl : user_tbl[id][field] = i}
              ok == {id \in account :
                        /\ user_tbl[id].password = make_password(lreq'.password)
                        /\ user_tbl[id].is_active}
          IN  /\ lresp'.status = 200 <=> ok # {}
              /\ lresp'.status = 200 => lresp'.user \in ok
              /\ lresp'.status # 200 => lresp'.status = 400 /\ lresp'.user = None]_vars

\* A registered username has logged in through the username lookup, while an
\* active account whose username is all digits exists.
C19_Witness ==
    /\ lresp.status = 200
    /\ LookupField(lreq.identifier) = "username"
    /\ user_tbl[lresp.user].username = lreq.identifier
    /\ \E id \in DOMAIN user_tbl : isdigit(user_tbl[id].username) /\ user_tbl[id].is_active

\* C20: a recipe create or update by staff is refused with 400, and leaves
\* every recipe, ingredient and step row as it was, when the ingredients list
\* is empty, an ingredient names a product that is missing or inactive, the
\* steps list is empty or two steps share a step_number; a payload whose
\* ingredients are non-empty and all name active products and whose steps are
\* non-empty and pairwise distinct is not refused.
C20_NestedValidation ==
    [][\A w \in RecipeWorkers, payload \in RecipePayloads :
          LET ingredients == payload.ingredients
              steps == payload.steps
              activeRef(k) == /\ ingredients[k] \in DOMAIN product_tbl
                              /\ product_tbl[ingredients[k]].is_active
              distinct == \A j, k \in DOMAIN steps : j # k => steps[j] # steps[k]
              handled ==
                  \/ RecipeCreate(w, "staff", payload)
                  \/ \E partial \in BOOLEAN, id \in DOMAIN recipe_tbl :
                        RecipeUpdateBegin(w, "staff", partial, id, payload)
          IN  (DOMAIN payload = RecipeKeys /\ handled) =>
                  IF /\ ingredients # <<>>
                     /\ \A k \in DOMAIN ingredients : activeRef(k)
                     /\ steps # <<>>
                     /\ distinct
                  THEN rresp'[w].status # 400
                  ELSE /\ rresp'[w].status = 400
                       /\ UNCHANGED <<recipe_tbl, ingr_tbl, step_tbl>>]_vars

\* C21: with requests handled one at a time, the save of a recipe detail
\* retrieval raises that recipe's stored view_count by exactly 1 and changes
\* no other field or row, no other step changes a view_count, and the list
\* endpoint changes nothing.
C21_RetrievalCounts ==
    [][/\ \A w \in RecipeWorkers :
             /\ (rreq[w].pc = "increment" /\ rreq'[w].pc = "serialize")
                   => /\ recipe_tbl' = [recipe_tbl EXCEPT ![rreq[w].id].view_count = @ + 1]
                      /\ UNCHANGED <<ingr_tbl, step_tbl, product_tbl>>
             /\ (rstarted' # rstarted /\ rresp'[w].op = "LIST")
                   => UNCHANGED <<recipe_tbl, ingr_tbl, step_tbl>>
       /\ \A id \in DOMAIN recipe_tbl :
             (id \in DOMAIN recipe_tbl' /\ recipe_tbl'[id].view_count # recipe_tbl[id].view_count)
                => \E w \in RecipeWorkers :
                      rreq[w].pc = "increment" /\ rreq[w].id = id /\ rreq'[w].pc = "serialize"]_vars

\* Two retrievals in sequence have been answered and the recipe's view_count is 2.
C21_Witness ==
    /\ rreq[1].pc = "idle"
    /\ rresp[1].op = "GET" /\ rresp[1].status = 200
    /\ recipe_tbl[rresp[1].id].view_count = 2

\* C22: expiry is derived, never stored: a story's stored status and
\* is_active change only in a step that answers a write request (POST, PUT,
\* PATCH, DELETE); a list or detail read changes neither, also after the
\* story's expires_at has passed.
C22_ExpiryNeverStored ==
    [][(\E i \in DOMAIN stories_tbl \cap DOMAIN stories_tbl' :
           \/ stories_tbl'[i].status # stories_tbl[i].status
           \/ stories_tbl'[i].is_active # stories_tbl[i].is_active)
          => ssresp'.op \notin {"LIST", "GET"}]_vars

\* C23: after a recipe DELETE answered 204, no recipe row with that id is in
\* the store.
C23_DeletedRowGone ==
    \A w \in RecipeWorkers :
        (rresp[w].op = "DELETE" /\ rresp[w].status = 204 /\ rreq[w].pc = "idle")
            => rresp[w].id \notin DOMAIN recipe_tbl

\* C24: a view-recording request that names no story, or a story that is a
\* draft, archived, inactive or past its expires_at, is refused with 400 on
\* the story field; no StoryView row is created and no view_count changes.
C24_UnpublishedRefused ==
    [][\A s \in {None} \cup DOMAIN story_tbl, d \in Devices \cup {None}, u \in Users \cup {None} :
          (/\ ViewValidate(1, s, d, u)
           /\ \/ s = None
              \/ story_tbl[s].status # "PUBLISHED"
              \/ ~story_tbl[s].is_active
              \/ (story_tbl[s].expires_at # None /\ story_tbl[s].expires_at < now))
             => /\ vresp'[1].status = 400
                /\ vresp'[1].code \in {"story_required", "story_unpublished"}
                /\ vreq'[1].pc = "idle"
                /\ view_tbl' = view_tbl
                /\ story_tbl' = story_tbl]_vars

\* A request has been refused for its story after the published story, viewed
\* once before, passed its expires_at.
C24_Witness ==
    /\ vresp[1].code = "story_unpublished"
    /\ now > story_tbl[1].expires_at
    /\ story_tbl[1].view_count = 1
    /\ Cardinality(view_tbl) = 1

\* The text a detail response is to carry for a field and a language tag.
C25_Localized(row, field, tag) ==
    LET localized ==
            CASE tag \in {"en", "EN"} -> row[field \o "_en"]
              [] tag = "ru" -> row[field \o "_ru"]
              [] OTHER -> row[field \o "_uz"]
    IN  IF localized # NoText THEN localized ELSE row[field \o "_uz"]

\* C25: a product detail response carries, for title and for description, the
\* text of the request's language when that text is not empty, the uz text
\* when it is empty, and the uz text when the request has no language tag or
\* one that is not uz, en or ru.
C25_LocalizedDetail ==
    [][\A id \in 1..MaxProducts, tag \in LangInputs :
          (ProductRetrieve(id, tag) /\ id \in ProductDetailQueryset(product_tbl)) =>
              /\ presp'.status = 200
              /\ \A d \in presp'.data :
                    /\ d.title = C25_Localized(product_tbl[id], "title", tag)
                    /\ d.description = C25_Localized(product_tbl[id], "description", tag)
              /\ presp'.data # {}]_vars

\* A detail in ru of a product whose ru title is filled and whose ru
\* description is empty: the title is the ru one, the description the uz one.
C25_Witness ==
    /\ 1 \in DOMAIN product_tbl
    /\ product_tbl[1].title_ru = "d"
    /\ product_tbl[1].title_uz # "d"
    /\ product_tbl[1].description_ru = NoText
    /\ presp.op = "retrieve" /\ presp.status = 200
    /\ \E d \in presp.data : d.title = "d" /\ d.description = product_tbl[1].description_uz

\* The ids a listing response carries.
C26_Listed(resp) == {d.id : d \in resp.data}

\* C26: at every instant, the instant now = expires_at included, the
\* active-stories listing answers exactly the stories whose is_published is
\* true (those a view or click recording accepts), and the featured listing
\* exactly those of them that are featured.
C26_ListedIffPublished ==
    [][\A c \in Callers :
          /\ ActiveStoriesList(c) =>
                C26_Listed(sresp') =
                    {i \in DOMAIN story_tbl : is_published(story_tbl[i], now)}
          /\ FeaturedStoriesList(c) =>
                C26_Listed(sresp') =
                    {i \in DOMAIN story_tbl :
                        is_published(story_tbl[i], now) /\ story_tbl[i].is_featured}]_vars

\* The StoryView rows that reference a story.
C27_Rows(s) == {v \in view_tbl : v.story = s}

\* Every request so far was handled by worker 1, hence one at a time, and
\* none is in flight.
C27_OneAtATime ==
    /\ vreq[1].pc = "idle"
    /\ vreq[2].pc = "idle" /\ vresp[2] = NoResp

\* C27: under any interleaving of view recordings and story updates a story's
\* view_count never exceeds the number of StoryView rows that reference it,
\* and the two are equal whenever all requests ran one at a time.
C27_CountAtMostRows ==
    \A s \in DOMAIN story_tbl :
        /\ story_tbl[s].view_count <= Cardinality(C27_Rows(s))
        /\ C27_OneAtATime => story_tbl[s].view_count = Cardinality(C27_Rows(s))

\* An update that read the story before two recordings and saved after them:
\* two rows, and a view_count below two.
C27_Witness ==
    /\ vresp[1].code = "updated"
    /\ Cardinality(C27_Rows(1)) = 2
    /\ story_tbl[1].view_count < 2
    /\ \A w \in ViewWorkers : vreq[w].pc = "idle"

\* C28: a recipe update replaces the ingredients and the steps in separate
\* writes: the deletion of the old rows is in the store, with no row of the
\* new set yet, while the update is still running, and a detail retrieval
\* answers with the rows the store holds when it builds its response, so a
\* concurrent retrieval can observe a set that is neither the old one nor
\* the new one.
C28_ReplacementVisible ==
    [][\A w \in RecipeWorkers :
          /\ RecipeIngredientsDelete(w) =>
                /\ IngredientsOf(ingr_tbl', rreq[w].id) = {}
                /\ rreq'[w].pc = "ingredients_create"
                /\ rresp' = rresp
          /\ RecipeStepsDelete(w) =>
                /\ StepsOf(step_tbl', rreq[w].id) = {}
                /\ rreq'[w].pc = "steps_create"
                /\ rresp' = rresp
          /\ (RecipeSerialize(w) /\ rreq[w].op = "GET") =>
                /\ rresp'[w].ingredients =
                       {r.product : r \in IngredientsOf(ingr_tbl, rreq[w].id)}
                /\ rresp'[w].steps =
                       {r.step_number : r \in StepsOf(step_tbl, rreq[w].id)}]_vars

\* A retrieval answered with no ingredient at all while an update of the same
\* recipe has deleted the old rows and not yet created the new ones.
C28_Witness ==
    \E w, v \in RecipeWorkers :
        /\ rresp[v].op = "GET" /\ rresp[v].status = 200
        /\ rresp[v].ingredients = {}
        /\ rresp[v].steps # {}
        /\ rreq[w].op \in {"PUT", "PATCH"}
        /\ rreq[w].pc = "ingredients_create"
        /\ rreq[w].id = rresp[v].id

\* C29: a recipe PATCH whose body has no ingredients key leaves the
\* ingredient rows as they are, one whose body has no steps key leaves the
\* step rows as they are, and a product update whose body has no images key
\* leaves the media rows as they are.
C29_AbsentKeyKeepsRows ==
    [][/\ (/\ rreq[1].op = "PATCH"
           /\ "ingredients" \notin DOMAIN rreq[1].payload) => ingr_tbl' = ingr_tbl
       /\ (/\ rreq[1].op = "PATCH"
           /\ "steps" \notin DOMAIN rreq[1].payload) => step_tbl' = step_tbl
       /\ \A partial \in BOOLEAN, payload \in ProductImagePayloads :
             (ProductUpdate(1, partial, payload) /\ "images" \notin DOMAIN payload)
                 => media_tbl' = media_tbl]_vars

\* A PATCH with steps and without ingredients has replaced the steps and is
\* about to answer, the recipe still has its ingredients, and a product
\* update without images was answered while the product has a media row.
C29_Witness ==
    /\ rreq[1].op = "PATCH" /\ rreq[1].pc = "serialize"
    /\ "ingredients" \notin DOMAIN rreq[1].payload
    /\ "steps" \in DOMAIN rreq[1].payload
    /\ IngredientsOf(ingr_tbl, rreq[1].id) # {}
    /\ presp.op = "update" /\ presp.status = 200
    /\ MediaOf(1) # {}

\* The apps.stories StoryView rows of a story and a user.
C30_Rows(tbl, s, u) == {v \in tbl : v.story = s /\ v.user = u}

\* C30: in the routed apps.stories, however often an authenticated user
\* retrieves a story's detail there is at most one StoryView row for that
\* story and user, and every such retrieval raises the story's view_count by
\* one; a retrieval by an anonymous caller creates no row and leaves
\* view_count as it is.
C30_OneRowManyCounts ==
    [][/\ \A s \in 1..MaxStories, u \in Callers :
             Cardinality(C30_Rows(sviews_tbl', s, u)) <= 1
       /\ \A c \in Callers, id \in DOMAIN stories_tbl :
             StoriesRetrieve(c, id) =>
                 IF is_authenticated(c)
                 THEN /\ stories_tbl' =
                            [stories_tbl EXCEPT ![id].view_count = @ + 1]
                      /\ Cardinality(C30_Rows(sviews_tbl', id, c)) = 1
                 ELSE /\ stories_tbl' = stories_tbl
                      /\ sviews_tbl' = sviews_tbl]_vars

\* The second retrieval of a story by the same user: one row, two views.
C30_Witness ==
    /\ ssresp.op = "GET" /\ ssresp.status = 200 /\ ssresp.caller = "user"
    /\ ssresp.id \in DOMAIN stories_tbl
    /\ stories_tbl[ssresp.id].view_count = 2
    /\ Cardinality(C30_Rows(sviews_tbl, ssresp.id, "user")) = 1
    /\ Cardinality(sviews_tbl) = 1
====
